---- MODULE Spec2Model ----
(***************************************************************************)
(* The cross-thread dispatch bridge of rpcad (src/src/rpcad/fusion.py):    *)
(* FusionFuture, the _FUTURES registry with _FUTURES_LOCK, the dispatcher  *)
(* wrapper run by the calling threads and DispatchHandler.notify run by    *)
(* the host's single privileged thread.                                    *)
(*                                                                         *)
(* Every calling thread makes one dispatch, so a FusionFuture is named by  *)
(* the thread that created it.  A registry key f"{id}#{index}" is the pair *)
(* <<id, index>>: event ids are "rpcad.<Class>.<method>" and hold no '#',  *)
(* so the formatted string determines the pair and the pair the string.    *)
(***************************************************************************)
EXTENDS Integers, Sequences, FiniteSets, TLC

\* number of calling threads, each making one dispatch of the same operation
MaxCallers == 3

Callers == 1..MaxCallers

\* the privileged (host main) thread, as a holder of the registry lock
Main == 0

\* lock holder when the lock is free
Free == -1

\* the event id of the dispatched operation
OperationId == "rpcad.S.on_connect"

\* Python's None, and the values and errors that flow through a Future
None == [kind |-> "None", id |-> "-", tag |-> 0]

\* the exception a caller-supplied callback raises
CallbackError == [kind |-> "cberr", id |-> "-", tag |-> 0]

\* the TimeoutError of get_result, and the booleans wait returns
TimeoutError == [kind |-> "TimeoutError", id |-> "-", tag |-> 0]
True == [kind |-> "True", id |-> "-", tag |-> 0]
False == [kind |-> "False", id |-> "-", tag |-> 0]

\* callback invocations followed on a Future driven through its own methods
MaxFired == 2

VARIABLES
    pc,             \* position of each calling thread inside dispatcher.wrapper
    id,             \* the event id each calling thread dispatches
    callback,       \* the caller-supplied callback of each call: "None" or "cb"
    future,         \* the FusionFuture each calling thread created
    key,            \* wrapper local: the key allocated
    ret,            \* what the wrapper gave back to its caller
    FUTURES,        \* _FUTURES: key -> FusionFuture (named by its creator)
    FUTURES_LOCK,   \* _FUTURES_LOCK: the thread holding it, or Free
    events,         \* custom events fired and not yet delivered by the host
    activeCommand,  \* ui.activeCommand of the host
    mpc,            \* position of the privileged thread
    info,           \* eventArgs.additionalInfo of the notification served
    cur,            \* notify local: the Future looked up
    outcome,        \* notify local: what self._handler returned or raised
    raised,         \* the exception in flight on the privileged thread
    inExcept,       \* the privileged thread is inside notify's except clause
    selected,       \* notify executed SelectCommand for the notification served
    produced,       \* per call, what the real operation returned or raised
    fired,          \* per Future, how many times its callback was invoked
    cbCalls,        \* per call, the values its caller callback was invoked with
    hostErrors,     \* the calls whose notification raised into the host
    declared,       \* the service classes the program declares, in order
    imported,       \* rpcad.fusion and the service classes: "no", "ok", "error"
    FUSION_EVENTS,  \* _FUSION_EVENTS: the EventInfo of each wrapped method
    registered,     \* the custom event ids registered with the host
    handlers,       \* the <<event id, handler>> pairs attached to host events
    EVENTS,         \* the addin's EVENTS: None or what register_events gave
    SERVER,         \* the addin's SERVER: "None", "accepting" or "closed"
    apc,            \* position of the addin between run(context) and stop(context)
    spc,            \* position of the thread running start_service
    messageBoxes,   \* the failures shown to the user with ui.messageBox
    calls,          \* how many times register_events was called
    logHandler,     \* the addin's log handler: on the rpcad logger, closed,
                    \* and the entry points that flushed it
    raisedIn,       \* the entry points, run or stop, in which an error was raised
    hostRaised,     \* the entry points an error left into the host
    batch,          \* what a client passed to batch_commands
    executed,       \* the commands the service has invoked, in order
    batchRet,       \* what batch_commands gave back to the client
    request,        \* a create_server or BaseClient call: the port asked for
                    \* and what the attempts on the ports will meet
    attempts,       \* the ports that call tried, in order
    connRet,        \* what that call gave back
    classAttrs,     \* the attributes of the service class the metaclass built
    operation,      \* the operation a client asks for: its name and argument
    directRet,      \* what the direct remote call of it gave
    commandRet,     \* what batch_commands gave for the Command of it
    clientRet,      \* what the client's method gave with as_command=True
    host,           \* the host's active document and its design
    service,        \* _app, _document and _design of the service object
    lastCall        \* the last call of the service: what it met and did

vars == <<pc, id, callback, future, key, ret, FUTURES, FUTURES_LOCK,
          events, activeCommand, mpc, info, cur, outcome, raised, inExcept,
          selected, produced, fired, cbCalls, hostErrors,
          declared, imported, FUSION_EVENTS, registered, handlers, EVENTS,
          SERVER, apc, spc, messageBoxes, calls,
          logHandler, raisedIn, hostRaised, batch, executed, batchRet,
          request, attempts, connRet, classAttrs, operation, directRet,
          commandRet, clientRet, host, service, lastCall>>

boundaryVars == <<logHandler, raisedIn, hostRaised>>
batchVars == <<batch, executed, batchRet>>
connectVars == <<request, attempts, connRet>>
routeVars == <<operation, directRet, commandRet, clientRet>>

docVars == <<host, service, lastCall>>

\* what the calls of the service's document operations leave alone
sessionVars ==
    <<declared, imported, FUSION_EVENTS, registered, handlers, EVENTS, SERVER,
      apc, spc, messageBoxes, calls, boundaryVars, batchVars, connectVars,
      classAttrs, routeVars>>

sideVars == <<batchVars, connectVars, classAttrs, routeVars, docVars>>

regVars == <<declared, imported, FUSION_EVENTS, registered, handlers, EVENTS,
             SERVER, apc, spc, messageBoxes, calls, boundaryVars, sideVars>>

callerVars == <<pc, id, callback, key, ret>>
mainVars == <<mpc, info, cur, outcome, raised, inExcept, selected>>
logVars == <<produced, fired, cbCalls, hostErrors>>

NoKey == <<"-", -1>>
NoFuture == [exists |-> FALSE, result |-> None, exception |-> None,
             event |-> FALSE, args |-> None, callback |-> "None"]
NoRet == [how |-> "pending", value |-> None]

\* FusionFuture.__init__: no result, no exception, event clear
NewFuture(args, cb) ==
    [exists |-> TRUE, result |-> None, exception |-> None,
     event |-> FALSE, args |-> args, callback |-> cb]

\* FusionFuture.completed
completed(f) == f.event

\* FusionFuture.has_result
has_result(f) == f.event /\ f.result # None

\* FusionFuture.has_exception
has_exception(f) == f.event /\ f.exception # None

\* a set_result that stores the result and leaves the event clear
store_result_unsignalled(f, v) == [f EXCEPT !.result = v]

\* FusionFuture.set_result up to its callback:
\* `self._result = result; self._event.set()`
store_result(f, v) == [f EXCEPT !.result = v, !.event = TRUE]

\* FusionFuture.set_exception up to its callback:
\* `self._exception = exception; self._event.set()`
store_exception(f, e) == [f EXCEPT !.exception = e, !.event = TRUE]

\* a get_result that drops the stored exception
get_result_swallow(f) == [how |-> "return", value |-> f.result]

\* a get_result that looks at the stored result first
get_result_value_first(f) ==
    IF f.result # None
    THEN [how |-> "return", value |-> f.result]
    ELSE [how |-> "raise", value |-> f.exception]

\* FusionFuture.get_result once the event is set: raise the stored exception
\* if there is one, else return the stored result
get_result(f) ==
    IF f.exception # None
    THEN [how |-> "raise", value |-> f.exception]
    ELSE [how |-> "return", value |-> f.result]

\* a get_result that records its timeout in the Future
timed_out_stored(f) == [f EXCEPT !.exception = TimeoutError]

\* the Future after a get_result whose wait timed out:
\* `if not self.wait(timeout): raise TimeoutError(...)` writes nothing
timed_out(f) == f

\* the real operation `function` of event id i run with a Future's args:
\* depending on the host's document it returns a value computed from its
\* arguments or raises an error about its arguments
Function(i, args) ==
    { [how |-> "return", value |-> [kind |-> "val", id |-> i, tag |-> args.tag]],
      [how |-> "raise", value |-> [kind |-> "err", id |-> i, tag |-> args.tag]] }

\* _FUTURES[key] = future
Insert(F, k, f) == [x \in DOMAIN F \cup {k} |-> IF x = k THEN f ELSE F[x]]

\* _FUTURES.pop(key, None)
Pop(F, k) == [x \in DOMAIN F \ {k} |-> F[x]]

\* a `with _FUTURES_LOCK:` block that keeps the lock when it is left
KeepLock(t) == t

\* leaving the `with _FUTURES_LOCK:` block thread t is in: the lock is free
Release(t) == Free

\* app.fireCustomEvent(id, key) on the host's queue q of fired events: the
\* host queues the event if the id is one of its registered events reg
FireCustomEvent(q, reg, i, k) == IF i \in reg THEN q \cup {k} ELSE q

\* f"{id}#{index}"
Key(i, n) == <<i, n>>

\* a probing loop that takes every key for free
KeyNeverInUse(F, k) == FALSE

\* `key in _FUTURES`, the test of the probing loop
KeyInUse(F, k) == k \in DOMAIN F

\* a probing loop that steps over an index
SkipIndex(n) == n + 2

\* `index += 1`, the step of the probing loop
NextIndex(n) == n + 1

\* the probing loop of the wrapper from index n: the first index whose key
\* is not in use
RECURSIVE ProbeFrom(_, _, _)
ProbeFrom(F, i, n) ==
    IF KeyInUse(F, Key(i, n)) THEN ProbeFrom(F, i, NextIndex(n)) ELSE n

\* args kept in one place for all Futures: those of the latest call
LatestArgs(f) ==
    future[CHOOSE c \in Callers :
              /\ future[c].exists
              /\ \A d \in Callers : future[d].exists => d <= c].args

\* future.args / future.kwargs as notify passes them to the operation
FutureArgs(f) == future[f].args

(***************************************************************************)
(* Fusion360ServiceMeta, register_events and unregister_events.  A class   *)
(* body is the sequence of the names of its methods, in the order they are *)
(* written; the function defined under name n in class k, the d-th class  *)
(* statement of the program, is named k.n and keeps d.                     *)
(***************************************************************************)

EXPOSED_PREFIX == "exposed_"

\* str.startswith
StartsWith(str, prefix) ==
    /\ Len(str) >= Len(prefix)
    /\ SubSeq(str, 1, Len(prefix)) = prefix

\* the function a `def` statement of a class body creates
Def(d, class, name) ==
    [impl |-> class \o "." \o name, decl |-> d, depth |-> 0]

\* dispatcher(function, id): the wrapper around a function
Dispatcher(function) == [function EXCEPT !.depth = @ + 1]

\* EventInfo(id, handler)
EventInfo(i, function) == [id |-> i, handler |-> function]

\* an event id that keeps the whole method name
EventIdOfWholeName(class, name) == "rpcad." \o class \o "." \o name

\* make_event: the event id of the method called name in the class called
\* class, `f"rpcad.{class}.{name}"` with the exposed_ prefix stripped
EventId(class, name) ==
    "rpcad." \o class \o "."
        \o (IF StartsWith(name, EXPOSED_PREFIX)
            THEN SubSeq(name, Len(EXPOSED_PREFIX) + 1, Len(name))
            ELSE name)

\* the key under which make_event stores the dispatcher in attrs
StoredName(name) ==
    IF StartsWith(name, EXPOSED_PREFIX)
    THEN SubSeq(name, Len(EXPOSED_PREFIX) + 1, Len(name))
    ELSE name

\* the loop of Fusion360ServiceMeta.__new__ from item n of attrs on: attrs is
\* the class dict as a sequence of [name, value]; a method whose name starts
\* with exposed_ or is on_connect is given an event and its dispatcher is
\* stored under the stripped name; storing under a name that is not a key
\* of attrs makes the iteration raise RuntimeError
RECURSIVE MetaLoop(_, _, _, _)
MetaLoop(class, attrs, infos, n) ==
    IF n > Len(attrs)
    THEN [raised |-> FALSE, infos |-> infos, attrs |-> attrs]
    ELSE LET a == attrs[n] IN
         IF StartsWith(a.name, EXPOSED_PREFIX) \/ a.name = "on_connect"
         THEN LET new == Append(infos,
                                EventInfo(EventId(class, a.name), a.value))
                  w == Dispatcher(a.value)
                  at == {m \in 1..Len(attrs) :
                            attrs[m].name = StoredName(a.name)}
              IN  IF at = {}
                  THEN [raised |-> TRUE, infos |-> new,
                        attrs |-> Append(attrs,
                                    [name |-> StoredName(a.name), value |-> w])]
                  ELSE MetaLoop(class,
                                [m \in 1..Len(attrs) |->
                                    IF m \in at
                                    THEN [attrs[m] EXCEPT !.value = w]
                                    ELSE attrs[m]],
                                new, n + 1)
         ELSE MetaLoop(class, attrs, infos, n + 1)

\* the class dict of a class statement whose body defines the methods named
\* in body, in that order
BodyAttrs(d, class, body) ==
    [m \in 1..Len(body) |-> [name |-> body[m], value |-> Def(d, class, body[m])]]

\* Fusion360ServiceMeta.__new__(cls, name, bases, attrs) for class statement
\* n of a program, k: the loop runs over the class dict, which holds what
\* the body of the class defines and nothing of its bases
ClassStatementOf(n, k, infos) ==
    MetaLoop(k.name, BodyAttrs(n, k.name, k.body), infos, 1)

\* the class `super().__new__(cls, name, bases, attrs)` builds, as attribute
\* lookup on it sees it: what attrs holds, and under every other name the
\* function of that name a base class defines
type_new(k, attrs) ==
    LET own == {attrs[m].name : m \in 1..Len(attrs)} IN
    [a \in own \cup k.bases |->
        IF a \in own
        THEN attrs[CHOOSE m \in 1..Len(attrs) : attrs[m].name = a].value
        ELSE Def(0, "Base", a)]

\* no class built
NoAttrs == [a \in {} |-> 0]

\* the class statements of the program run from statement n on, as the
\* import of the modules that hold them runs them: each appends to
\* _FUSION_EVENTS, and the import ends at the first that raises
RECURSIVE ImportFrom(_, _, _)
ImportFrom(classes, infos, n) ==
    IF n > Len(classes)
    THEN [raised |-> FALSE, infos |-> infos]
    ELSE LET k == classes[n]
             r == ClassStatementOf(n, k, infos)
         IN  IF r.raised
             THEN [raised |-> TRUE, infos |-> r.infos]
             ELSE ImportFrom(classes, r.infos, n + 1)

\* the service class of a program, the last one its class statements
\* build; none when one of them raised
ServiceClass(classes) ==
    LET n == Len(classes)
        r == ClassStatementOf(n, classes[n], <<>>)
    IN  IF ImportFrom(classes, <<>>, 1).raised
        THEN NoAttrs
        ELSE type_new(classes[n], r.attrs)

\* app.registerCustomEvent(id) gives no event for an id that is registered
CanRegister(reg, i) == i \notin reg

\* the loop of register_events from item n of _FUSION_EVENTS on; st holds
\* the host's events and attached handlers and the dict built so far.  When
\* the host gives no event, `event.add(handler)` raises and the loop ends
RECURSIVE RegisterFrom(_, _, _)
RegisterFrom(infos, st, n) ==
    IF n > Len(infos)
    THEN st
    ELSE LET ei == infos[n] IN
         IF ~CanRegister(st.registered, ei.id)
         THEN [st EXCEPT !.raised = TRUE]
         ELSE RegisterFrom(infos,
                  [st EXCEPT !.registered = @ \cup {ei.id},
                             !.handlers = @ \cup {<<ei.id, ei.handler>>},
                             !.events = Insert(@, ei.id, ei.handler)],
                  n + 1)

\* register_events()
register_events(infos, reg, hs) ==
    RegisterFrom(infos,
                 [raised |-> FALSE, registered |-> reg, handlers |-> hs,
                  events |-> [i \in {} |-> 0]],
                 1)

\* an unregistration that leaves the event with the host
KeepRegistered(reg, i) == reg

\* app.unregisterCustomEvent(event.eventId)
UnregisterCustomEvent(reg, i) == reg \ {i}

\* unregister_events(events): every event given is released and its
\* handler removed from it
unregister_events(items, reg, hs) ==
    LET RECURSIVE Loop(_, _)
        Loop(todo, st) ==
            IF todo = {} THEN st
            ELSE LET i == CHOOSE x \in todo : TRUE IN
                 Loop(todo \ {i},
                      [registered |-> UnregisterCustomEvent(st.registered, i),
                       handlers |-> st.handlers \ {<<i, items[i]>>}])
    IN  Loop(DOMAIN items, [registered |-> reg, handlers |-> hs])

\* the addin's global EVENTS
NoEvents == [isNone |-> TRUE, items |-> [i \in {} |-> 0]]
SomeEvents(items) == [isNone |-> FALSE, items |-> items]

\* the RotatingFileHandler the addin builds when it is loaded: open, on no
\* logger, not yet flushed by run or stop
NewHandler == [attached |-> FALSE, closed |-> FALSE, flushed |-> {}]

\* a session in which the class S with the one method on_connect is
\* declared, its event is registered and the server accepts connections
Serving ==
    /\ declared = <<[name |-> "S", body |-> <<"on_connect">>, bases |-> {}]>>
    /\ imported = "ok"
    /\ FUSION_EVENTS = ImportFrom(declared, <<>>, 1).infos
    /\ classAttrs = ServiceClass(declared)
    /\ LET r == register_events(FUSION_EVENTS, {}, {}) IN
          /\ registered = r.registered
          /\ handlers = r.handlers
          /\ EVENTS = SomeEvents(r.events)
    /\ SERVER = "accepting"
    /\ apc = "running"
    /\ spc = "serving"
    /\ messageBoxes = {}
    /\ calls = 1
    /\ logHandler = [attached |-> TRUE, closed |-> FALSE, flushed |-> {"run"}]
    /\ raisedIn = {}
    /\ hostRaised = {}

\* no batch_commands call made
NoBatch == [single |-> FALSE, cmds |-> <<>>]

\* no create_server or BaseClient call followed
NoRequest == [who |-> "nobody", port |-> 0, first |-> "ok", second |-> "ok"]

NoConnect ==
    /\ request = NoRequest
    /\ attempts = <<>>
    /\ connRet = NoRet

\* no operation asked for
NoOperation == [name |-> "none", arg |-> "none"]

NoRoute ==
    /\ operation = NoOperation
    /\ directRet = NoRet
    /\ commandRet = NoRet
    /\ clientRet = NoRet

\* the host with no document open
NoDocument == [doc |-> 0, design |-> 0]

\* the service object before on_connect
NotConnected == [app |-> FALSE, document |-> 0, design |-> 0]

NoCall ==
    [op |-> "none", met |-> NoDocument, left |-> NoDocument, held |-> 0,
     how |-> "pending", ran |-> FALSE, document |-> 0, design |-> 0]

NoDocs ==
    /\ host = NoDocument
    /\ service = NotConnected
    /\ lastCall = NoCall

NoBatchCall ==
    /\ batch = NoBatch
    /\ executed = <<>>
    /\ batchRet = NoRet

\* the dispatch bridge with no call made: no Future, the registry empty,
\* the lock free, the privileged thread idle
BridgeAtRest ==
    /\ pc = [c \in Callers |-> "call"]
    /\ id = [c \in Callers |-> OperationId]
    /\ callback = [c \in Callers |-> "None"]
    /\ future = [c \in Callers |-> NoFuture]
    /\ key = [c \in Callers |-> NoKey]
    /\ ret = [c \in Callers |-> NoRet]
    /\ FUTURES = [k \in {} |-> 0]
    /\ FUTURES_LOCK = Free
    /\ events = {}
    /\ activeCommand = "SelectCommand"
    /\ mpc = "idle"
    /\ info = NoKey
    /\ cur = 0
    /\ outcome = NoRet
    /\ raised = None
    /\ inExcept = FALSE
    /\ selected = FALSE
    /\ produced = [c \in Callers |-> NoRet]
    /\ fired = [c \in Callers |-> 0]
    /\ cbCalls = [c \in Callers |-> <<>>]
    /\ hostErrors = {}

Init ==
    /\ Serving
    /\ BridgeAtRest
    /\ NoBatchCall
    /\ NoConnect
    /\ NoRoute
    /\ NoDocs

(***************************************************************************)
(* dispatcher.wrapper, run by calling thread c.  The calling threads are   *)
(* interchangeable, so they are numbered in the order they make the call.  *)
(***************************************************************************)

\* the call wrapper(*args, callback=cb, **kwargs) of a method the metaclass
\* wrapped, made by a thread of the server while it serves requests: the
\* Future is built with the call's args and callback=None, then
\* `with _FUTURES_LOCK:` is entered
Call(c) ==
    /\ pc[c] = "call"
    /\ SERVER = "accepting"
    /\ \E n \in DOMAIN FUSION_EVENTS : FUSION_EVENTS[n].id = id[c]
    /\ \A d \in Callers : d < c => pc[d] # "call"
    /\ FUTURES_LOCK = Free
    /\ \E cb \in {"None", "cb"} :
          callback' = [callback EXCEPT ![c] = cb]
    /\ future' = [future EXCEPT
          ![c] = NewFuture([kind |-> "args", id |-> "-", tag |-> c], "None")]
    /\ FUTURES_LOCK' = c
    /\ pc' = [pc EXCEPT ![c] = "probe"]
    /\ UNCHANGED <<regVars, id, key, ret, FUTURES, events, activeCommand, mainVars,
                   logVars>>

\* the body of the `with` block: probe from index 0, store the Future under
\* the first key not in use, leave the block
Probe(c) ==
    /\ pc[c] = "probe"
    /\ FUTURES_LOCK = c
    /\ LET k == Key(id[c], ProbeFrom(FUTURES, id[c], 0)) IN
          /\ FUTURES' = Insert(FUTURES, k, c)
          /\ key' = [key EXCEPT ![c] = k]
    /\ FUTURES_LOCK' = Release(c)
    /\ pc' = [pc EXCEPT ![c] = "fire"]
    /\ UNCHANGED <<regVars, id, callback, future, ret, events, activeCommand,
                   mainVars, logVars>>

\* a wrapper that fires the event without giving the Future its callback
NoHandler(f) == f

\* `future.callback = handler`: the Future is given the wrapper's cleanup
\* callback
AttachHandler(f) == [f EXCEPT !.callback = "handler"]

\* `future.callback = handler`, then `app.fireCustomEvent(id, key)`; with a
\* caller callback the wrapper then returns None at once
Fire(c) ==
    /\ pc[c] = "fire"
    /\ future' = [future EXCEPT ![c] = AttachHandler(@)]
    /\ events' = FireCustomEvent(events, registered, id[c], key[c])
    /\ IF callback[c] = "None"
       THEN /\ pc' = [pc EXCEPT ![c] = "wait"]
            /\ UNCHANGED ret
       ELSE /\ pc' = [pc EXCEPT ![c] = "done"]
            /\ ret' = [ret EXCEPT ![c] = [how |-> "return", value |-> None]]
    /\ UNCHANGED <<regVars, id, callback, key, FUTURES, FUTURES_LOCK, activeCommand,
                   mainVars, logVars>>

\* `return future.get_result()`: blocked until the event is set
Wait(c) ==
    /\ pc[c] = "wait"
    /\ future[c].event
    /\ ret' = [ret EXCEPT ![c] = get_result(future[c])]
    /\ pc' = [pc EXCEPT ![c] = "done"]
    /\ UNCHANGED <<regVars, id, callback, future, key, FUTURES, FUTURES_LOCK, events,
                   activeCommand, mainVars, logVars>>

(***************************************************************************)
(* The host: its privileged thread delivers the fired events one at a time *)
(* to DispatchHandler.notify, in an order of its own, and the user may     *)
(* start a command while that thread is idle.                              *)
(***************************************************************************)

\* the privileged thread leaves notify
Idle ==
    /\ mpc' = "idle"
    /\ info' = NoKey
    /\ cur' = 0
    /\ outcome' = NoRet
    /\ raised' = None
    /\ inExcept' = FALSE
    /\ selected' = FALSE

\* an exception leaves notify and reaches the host
Escape(f) ==
    /\ hostErrors' = hostErrors \cup {f}
    /\ Idle

\* a notify that leaves the active command as it finds it
KeepActiveCommand(cmd) == cmd

\* the first statement of notify, `if ui.activeCommand != "SelectCommand":
\* ui.commandDefinitions.itemById("SelectCommand").execute()`: the command
\* active on the host after it
ExecuteSelectCommand(cmd) ==
    IF cmd # "SelectCommand" THEN "SelectCommand" ELSE cmd

\* the user starts a command while the privileged thread is idle
UserCommand ==
    /\ mpc = "idle"
    /\ activeCommand = "SelectCommand"
    /\ activeCommand' = "OtherCommand"
    /\ UNCHANGED <<regVars, callerVars, future, FUTURES, FUTURES_LOCK, events,
                   mainVars, logVars>>

\* the host, its privileged thread not being inside run or stop, calls the
\* notify(eventArgs) of the handler attached to a fired event, with
\* eventArgs.additionalInfo = key; notify starts with
\* `if ui.activeCommand != "SelectCommand": ...SelectCommand.execute()`
Notify ==
    /\ mpc = "idle"
    /\ apc # "closing"
    /\ \E e \in events :
          /\ \E h \in handlers : h[1] = e[1]
          /\ events' = events \ {e}
          /\ info' = e
    /\ activeCommand' = ExecuteSelectCommand(activeCommand)
    /\ selected' = (activeCommand # "SelectCommand")
    /\ mpc' = "lookup"
    /\ UNCHANGED <<regVars, callerVars, future, FUTURES, FUTURES_LOCK, cur, outcome,
                   raised, inExcept, logVars>>

\* `future = _FUTURES[eventArgs.additionalInfo]`, outside the try block,
\* then `result = self._handler(*future.args, **future.kwargs)` inside it
Invoke ==
    /\ mpc = "lookup"
    /\ IF info \in DOMAIN FUTURES
       THEN /\ cur' = FUTURES[info]
            /\ \E r \in Function(info[1], FutureArgs(FUTURES[info])) :
                  /\ outcome' = r
                  /\ produced' = [produced EXCEPT ![FUTURES[info]] = r]
                  /\ IF r.how = "return"
                     THEN /\ mpc' = "set_result"
                          /\ UNCHANGED <<raised, inExcept>>
                     ELSE /\ mpc' = "set_exception"
                          /\ raised' = r.value
                          /\ inExcept' = TRUE
            /\ UNCHANGED <<info, selected, hostErrors>>
       ELSE /\ Escape(0)
            /\ UNCHANGED produced
    /\ UNCHANGED <<regVars, callerVars, future, FUTURES, FUTURES_LOCK, events,
                   activeCommand, fired, cbCalls>>

\* where a completion goes after `self._event.set()`: into the Future's
\* callback if it has one (the wrapper's handler, which first calls the
\* caller's callback if there is one), else straight back
AfterSet(f) ==
    IF future[f].callback = "None" THEN "return"
    ELSE IF callback[f] = "None" THEN "h_lock" ELSE "caller_cb"

\* FusionFuture.set_result: `self._result = result; self._event.set()`,
\* then `self.callback(result)` is entered if there is a callback
SetResult ==
    /\ mpc = "set_result"
    /\ future' = [future EXCEPT ![cur] = store_result(@, outcome.value)]
    /\ IF AfterSet(cur) = "return"
       THEN /\ Idle
            /\ UNCHANGED fired
       ELSE /\ mpc' = AfterSet(cur)
            /\ fired' = [fired EXCEPT ![cur] = @ + 1]
            /\ UNCHANGED <<info, cur, outcome, raised, inExcept, selected>>
    /\ UNCHANGED <<regVars, callerVars, FUTURES, FUTURES_LOCK, events, activeCommand,
                   produced, cbCalls, hostErrors>>

\* FusionFuture.set_exception, called in notify's except clause:
\* `self._exception = exception; self._event.set()`, then
\* `self.callback(exception)` is entered if there is a callback
SetException ==
    /\ mpc = "set_exception"
    /\ future' = [future EXCEPT ![cur] = store_exception(@, raised)]
    /\ IF AfterSet(cur) = "return"
       THEN /\ Idle
            /\ UNCHANGED fired
       ELSE /\ mpc' = AfterSet(cur)
            /\ fired' = [fired EXCEPT ![cur] = @ + 1]
            /\ UNCHANGED <<info, cur, outcome, raised, inExcept, selected>>
    /\ UNCHANGED <<regVars, callerVars, FUTURES, FUTURES_LOCK, events, activeCommand,
                   produced, cbCalls, hostErrors>>

\* handler: `if callback is not None: callback(result_or_exception)`.  The
\* caller's callback returns or raises; what it raises inside set_result is
\* caught by notify's except clause, what it raises inside set_exception
\* leaves notify
CallerCallback ==
    /\ mpc = "caller_cb"
    /\ cbCalls' = [cbCalls EXCEPT ![cur] =
                      Append(@, IF inExcept THEN raised ELSE outcome.value)]
    /\ \/ /\ mpc' = "h_lock"
          /\ UNCHANGED <<info, cur, outcome, raised, inExcept, selected,
                       hostErrors>>
       \/ /\ ~inExcept
          /\ raised' = CallbackError
          /\ inExcept' = TRUE
          /\ mpc' = "set_exception"
          /\ UNCHANGED <<info, cur, outcome, selected, hostErrors>>
       \/ /\ inExcept
          /\ Escape(cur)
    /\ UNCHANGED <<regVars, callerVars, future, FUTURES, FUTURES_LOCK, events,
                   activeCommand, produced, fired>>

\* a handler that pops its key without taking the lock
HandlerNoLock ==
    /\ mpc = "h_lock"
    /\ FUTURES' = Pop(FUTURES, key[cur])
    /\ future' = [future EXCEPT
          ![cur].callback = IF inExcept THEN @ ELSE "None"]
    /\ Idle
    /\ UNCHANGED <<regVars, callerVars, FUTURES_LOCK, events, activeCommand, logVars>>

\* handler: `with _FUTURES_LOCK:`
HandlerAcquire ==
    /\ mpc = "h_lock"
    /\ FUTURES_LOCK = Free
    /\ FUTURES_LOCK' = Main
    /\ mpc' = "h_pop"
    /\ UNCHANGED <<regVars, callerVars, future, FUTURES, events, activeCommand,
                   info, cur, outcome, raised, inExcept, selected, logVars>>

\* handler: `_FUTURES.pop(key, None)` with the wrapper's key, then the lock
\* is released and handler returns; set_result goes on with
\* `self.callback = None`, set_exception has nothing left; notify returns
HandlerPop ==
    /\ mpc = "h_pop"
    /\ FUTURES_LOCK = Main
    /\ FUTURES' = Pop(FUTURES, key[cur])
    /\ FUTURES_LOCK' = Release(Main)
    /\ future' = [future EXCEPT
          ![cur].callback = IF inExcept THEN @ ELSE "None"]
    /\ Idle
    /\ UNCHANGED <<regVars, callerVars, events, activeCommand, logVars>>

Next ==
    \/ \E c \in Callers : Call(c)
    \/ \E c \in Callers : Probe(c)
    \/ \E c \in Callers : Fire(c)
    \/ \E c \in Callers : Wait(c)
    \/ UserCommand
    \/ Notify
    \/ Invoke
    \/ SetResult
    \/ SetException
    \/ CallerCallback
    \/ HandlerAcquire
    \/ HandlerPop

Spec == Init /\ [][Next]_vars

(***************************************************************************)
(* FusionFuture on its own: one Future, built with or without a callback,  *)
(* driven through its methods in any order by the code that holds it.  It  *)
(* is future[1]; ret[1] is what the last wait or get_result gave back.     *)
(***************************************************************************)

\* the values and the errors a holder completes the Future with
Results == {None} \cup {[kind |-> "val", id |-> OperationId, tag |-> t] : t \in 1..2}
Errors == {[kind |-> "err", id |-> OperationId, tag |-> t] : t \in 1..2}

InitFuture ==
    /\ Serving
    /\ NoBatchCall
    /\ NoConnect
    /\ NoRoute
    /\ NoDocs
    /\ pc = [c \in Callers |-> "held"]
    /\ id = [c \in Callers |-> OperationId]
    /\ callback = [c \in Callers |-> "None"]
    /\ \E cb \in {"None", "cb"} :
          future = [c \in Callers |->
                      IF c = 1 THEN NewFuture(None, cb) ELSE NoFuture]
    /\ key = [c \in Callers |-> NoKey]
    /\ ret = [c \in Callers |-> NoRet]
    /\ FUTURES = [k \in {} |-> 0]
    /\ FUTURES_LOCK = Free
    /\ events = {}
    /\ activeCommand = "SelectCommand"
    /\ mpc = "idle"
    /\ info = NoKey
    /\ cur = 0
    /\ outcome = NoRet
    /\ raised = None
    /\ inExcept = FALSE
    /\ selected = FALSE
    /\ produced = [c \in Callers |-> NoRet]
    /\ fired = [c \in Callers |-> 0]
    /\ cbCalls = [c \in Callers |-> <<>>]
    /\ hostErrors = {}

heldVars == <<pc, id, callback, key, FUTURES, FUTURES_LOCK, events,
              activeCommand, mainVars, produced, hostErrors, regVars>>

\* FusionFuture.set_result(v): store, set the event, and with a callback
\* call it and, if it returned, clear it
FutureSetResult(v) ==
    /\ pc[1] = "held"
    /\ fired[1] < MaxFired
    /\ IF future[1].callback = "None"
       THEN /\ future' = [future EXCEPT ![1] = store_result(@, v)]
            /\ UNCHANGED <<fired, cbCalls>>
       ELSE /\ fired' = [fired EXCEPT ![1] = @ + 1]
            /\ cbCalls' = [cbCalls EXCEPT ![1] = Append(@, v)]
            /\ \/ future' = [future EXCEPT
                     ![1] = [store_result(@, v) EXCEPT !.callback = "None"]]
               \/ future' = [future EXCEPT ![1] = store_result(@, v)]
    /\ UNCHANGED <<heldVars, ret>>

\* FusionFuture.set_exception(e): store, set the event, and with a callback
\* call it; the callback stays
FutureSetException(e) ==
    /\ pc[1] = "held"
    /\ fired[1] < MaxFired
    /\ future' = [future EXCEPT ![1] = store_exception(@, e)]
    /\ IF future[1].callback = "None"
       THEN UNCHANGED <<fired, cbCalls>>
       ELSE /\ fired' = [fired EXCEPT ![1] = @ + 1]
            /\ cbCalls' = [cbCalls EXCEPT ![1] = Append(@, e)]
    /\ UNCHANGED <<heldVars, ret>>

\* FusionFuture.wait(timeout) on a holder's thread, the timeout elapsing if
\* the event is not set
FutureWait ==
    /\ pc[1] = "held"
    /\ ret' = [ret EXCEPT ![1] =
                 [how |-> "return",
                  value |-> IF future[1].event THEN True ELSE False]]
    /\ UNCHANGED <<heldVars, future, fired, cbCalls>>

\* FusionFuture.get_result(timeout) on a holder's thread, the timeout
\* elapsing if the event is not set
FutureGetResult ==
    /\ pc[1] = "held"
    /\ ret' = [ret EXCEPT ![1] =
                 IF ~future[1].event
                 THEN [how |-> "raise", value |-> TimeoutError]
                 ELSE get_result(future[1])]
    /\ future' = [future EXCEPT
          ![1] = IF ~future[1].event THEN timed_out(@) ELSE @]
    /\ UNCHANGED <<heldVars, fired, cbCalls>>

NextFuture ==
    \/ \E v \in Results : FutureSetResult(v)
    \/ \E e \in Errors : FutureSetException(e)
    \/ FutureWait
    \/ FutureGetResult

SpecFuture == InitFuture /\ [][NextFuture]_vars

(***************************************************************************)
(* The programs: one or more service classes, each declaring up to two of  *)
(* the methods on_connect, exposed_on_connect, exposed_a and a.            *)
(***************************************************************************)

AttrNames == {"on_connect", "exposed_on_connect", "exposed_a", "a"}

Bodies ==
    {<<>>} \cup {<<a>> : a \in AttrNames}
           \cup {<<x[1], x[2]>> :
                     x \in {y \in AttrNames \X AttrNames : y[1] # y[2]}}

ClassNames == {"S", "T"}

\* the classes of a program define every function they expose themselves
ClassDecls ==
    {[name |-> k, body |-> b, bases |-> {}] : k \in ClassNames, b \in Bodies}

\* class statements in a program
MaxClasses == 2

Programs == UNION {[1..n -> ClassDecls] : n \in 1..MaxClasses}

\* calls of register_events followed
MaxSessions == 2

\* server threads that make a dispatch in a session of the addin
MaxServed == 2

dispatchVars == <<pc, id, callback, future, key, ret, FUTURES, FUTURES_LOCK,
                  events, activeCommand, mainVars, logVars>>

\* the exception of `event.add(handler)` when the host gave no event
AttributeError == [kind |-> "AttributeError", id |-> "-", tag |-> 0]

\* the dict the n-th call of register_events returned, as a returned value
EventsDict(n) == [kind |-> "events", id |-> "-", tag |-> n]

\* the state in which nothing of the program has run: no module imported,
\* no event with the host, the addin's globals None, and the dispatch
\* bridge at rest with the threads in `threads` at position p
Loaded(threads, p) ==
    /\ imported = "no"
    /\ FUSION_EVENTS = <<>>
    /\ classAttrs = NoAttrs
    /\ registered = {}
    /\ handlers = {}
    /\ EVENTS = NoEvents
    /\ SERVER = "None"
    /\ spc = "none"
    /\ messageBoxes = {}
    /\ calls = 0
    /\ logHandler = NewHandler
    /\ NoBatchCall
    /\ NoConnect
    /\ NoRoute
    /\ NoDocs
    /\ raisedIn = {}
    /\ hostRaised = {}
    /\ pc = [c \in Callers |-> IF c \in threads THEN p ELSE "off"]
    /\ id = [c \in Callers |->
                LET r == ImportFrom(declared, <<>>, 1) IN
                IF r.infos = <<>> THEN OperationId ELSE r.infos[1].id]
    /\ callback = [c \in Callers |-> "None"]
    /\ future = [c \in Callers |-> NoFuture]
    /\ key = [c \in Callers |-> NoKey]
    /\ ret = [c \in Callers |-> NoRet]
    /\ FUTURES = [k \in {} |-> 0]
    /\ FUTURES_LOCK = Free
    /\ events = {}
    /\ activeCommand = "SelectCommand"
    /\ mpc = "idle"
    /\ info = NoKey
    /\ cur = 0
    /\ outcome = NoRet
    /\ raised = None
    /\ inExcept = FALSE
    /\ selected = FALSE
    /\ produced = [c \in Callers |-> NoRet]
    /\ fired = [c \in Callers |-> 0]
    /\ cbCalls = [c \in Callers |-> <<>>]
    /\ hostErrors = {}

\* `root_logger.addHandler(handler)` of run(context)
AddHandler(h) == [h EXCEPT !.attached = TRUE]

\* the finally clause of run(context): `handler.flush()`
RunFinally(h) == [h EXCEPT !.flushed = @ \cup {"run"}]

\* the finally clause of stop(context): `handler.flush(); handler.close();
\* logging.getLogger("rpcad").removeHandler(handler)`
StopFinally(h) ==
    [attached |-> FALSE, closed |-> TRUE, flushed |-> h.flushed \cup {"stop"}]

\* the import of rpcad.fusion and of the modules that declare the service
\* classes: _FUSION_EVENTS starts empty and every class statement runs
\* Fusion360ServiceMeta.__new__; inside run(context) an import that raises
\* ends run in its except clause
Import ==
    /\ imported = "no"
    /\ apc \in {"held", "loaded"}
    /\ LET r == ImportFrom(declared, <<>>, 1) IN
          /\ FUSION_EVENTS' = r.infos
          /\ imported' = IF r.raised THEN "error" ELSE "ok"
          /\ classAttrs' = ServiceClass(declared)
          /\ IF r.raised /\ apc = "loaded"
             THEN /\ apc' = "failed"
                  /\ messageBoxes' = messageBoxes \cup {"run"}
                  /\ raisedIn' = raisedIn \cup {"run"}
                  /\ logHandler' = RunFinally(logHandler)
             ELSE /\ logHandler' = IF apc = "loaded"
                                   THEN AddHandler(logHandler)
                                   ELSE logHandler
                  /\ UNCHANGED <<apc, messageBoxes, raisedIn>>
    /\ UNCHANGED <<dispatchVars, batchVars, connectVars, routeVars, docVars,
                   declared,
                   registered, handlers, EVENTS, SERVER, spc, calls,
                   hostRaised>>

(***************************************************************************)
(* A service class that inherits what it exposes, as                       *)
(* `class Fusion360ServiceThreaded(Fusion360Service, metaclass=...)` does: *)
(* the import runs its class statement, and the RPC layer then looks the   *)
(* operations up on the class it built.                                    *)
(***************************************************************************)

\* the exposed functions a base class may define
BaseNames == {"on_connect", "exposed_a"}

\* a class statement with a body and the names its bases expose
MetaDecls ==
    {[name |-> "S", body |-> b, bases |-> i] :
        b \in Bodies, i \in SUBSET BaseNames}

\* the attribute the RPC layer reads for the operation called name: with
\* `allow_public_attrs` the public attribute of that name when the class
\* has one, and the exposed_ one otherwise
RemoteAttr(class, name) ==
    IF name \in DOMAIN class THEN name ELSE EXPOSED_PREFIX \o name

InitMeta ==
    /\ declared \in {<<k>> : k \in MetaDecls}
    /\ apc = "held"
    /\ Loaded({1}, "held")

NextMeta == Import

SpecMeta == InitMeta /\ [][NextMeta]_vars

(***************************************************************************)
(* register_events and unregister_events on their own, called in any order *)
(* by the code that imported the module; EVENTS holds what the last        *)
(* register_events that returned gave, ret[1] what the last call gave.     *)
(***************************************************************************)

InitEvents ==
    /\ declared \in Programs
    /\ apc = "held"
    /\ Loaded({1}, "held")

\* `EVENTS = register_events()`
RegisterEvents ==
    /\ apc = "held"
    /\ imported = "ok"
    /\ calls < MaxSessions
    /\ calls' = calls + 1
    /\ LET r == register_events(FUSION_EVENTS, registered, handlers) IN
          /\ registered' = r.registered
          /\ handlers' = r.handlers
          /\ IF r.raised
             THEN /\ ret' = [ret EXCEPT ![1] =
                                [how |-> "raise", value |-> AttributeError]]
                  /\ UNCHANGED EVENTS
             ELSE /\ ret' = [ret EXCEPT ![1] =
                                [how |-> "return", value |-> EventsDict(calls')]]
                  /\ EVENTS' = SomeEvents(r.events)
    /\ UNCHANGED <<pc, id, callback, future, key, FUTURES, FUTURES_LOCK,
                   events, activeCommand, mainVars, logVars, declared,
                   imported, FUSION_EVENTS, SERVER, apc, spc, messageBoxes,
                   boundaryVars, sideVars>>

\* `unregister_events(EVENTS.values())`
UnregisterEvents ==
    /\ apc = "held"
    /\ ~EVENTS.isNone
    /\ LET u == unregister_events(EVENTS.items, registered, handlers) IN
          /\ registered' = u.registered
          /\ handlers' = u.handlers
    /\ ret' = [ret EXCEPT ![1] = [how |-> "return", value |-> None]]
    /\ UNCHANGED <<pc, id, callback, future, key, FUTURES, FUTURES_LOCK,
                   events, activeCommand, mainVars, logVars, declared,
                   imported, FUSION_EVENTS, EVENTS, SERVER, apc, spc,
                   messageBoxes, calls, boundaryVars,
                   sideVars>>

NextEvents ==
    \/ Import
    \/ RegisterEvents
    \/ UnregisterEvents

SpecEvents == InitEvents /\ [][NextEvents]_vars

(***************************************************************************)
(* The addin "RPC Server": run(context) and stop(context), called by the   *)
(* host on its privileged thread, and start_service on a thread of its     *)
(* own.  The program declares one service class; up to MaxServed threads   *)
(* of the server each make one dispatch of its first wrapped method.       *)
(***************************************************************************)

InitAddin ==
    /\ declared \in {p \in Programs : Len(p) = 1}
    /\ apc = "loaded"
    /\ Loaded(1..MaxServed, "call")

\* run(context) after its imports: `EVENTS = register_events()`, then
\* `PROCESS = Thread(target=start_service); PROCESS.start()`; a
\* register_events that raises leaves EVENTS None and ends run in its except
\* clause with a message box
RunRegister ==
    /\ apc = "loaded"
    /\ imported = "ok"
    /\ mpc = "idle"
    /\ calls' = calls + 1
    /\ LET r == register_events(FUSION_EVENTS, registered, handlers) IN
          /\ registered' = r.registered
          /\ handlers' = r.handlers
          /\ IF r.raised
             THEN /\ messageBoxes' = messageBoxes \cup {"run"}
                  /\ raisedIn' = raisedIn \cup {"run"}
                  /\ apc' = "failed"
                  /\ UNCHANGED <<EVENTS, spc>>
             ELSE /\ EVENTS' = SomeEvents(r.events)
                  /\ spc' = "starting"
                  /\ apc' = "running"
                  /\ UNCHANGED <<messageBoxes, raisedIn>>
    /\ logHandler' = RunFinally(logHandler)
    /\ UNCHANGED <<dispatchVars, sideVars, declared, imported, FUSION_EVENTS, SERVER,
                   hostRaised>>

\* start_service: `SERVER = Fusion360Service.create_server(...)` and
\* `SERVER.start()`, or an exception of either shown in a message box
ServerStart ==
    /\ spc = "starting"
    /\ \/ /\ SERVER' = "accepting"
          /\ spc' = "serving"
          /\ UNCHANGED messageBoxes
       \/ /\ messageBoxes' = messageBoxes \cup {"server"}
          /\ spc' = "ended"
          /\ UNCHANGED SERVER
    /\ UNCHANGED <<dispatchVars, sideVars, declared, imported, FUSION_EVENTS,
                   registered, handlers, EVENTS, apc, calls, boundaryVars>>

\* SERVER.start() returns once the server is closed
ServerExit ==
    /\ spc = "serving"
    /\ SERVER = "closed"
    /\ spc' = "ended"
    /\ UNCHANGED <<dispatchVars, sideVars, declared, imported, FUSION_EVENTS,
                   registered, handlers, EVENTS, SERVER, apc, messageBoxes,
                   calls, boundaryVars>>

\* what `if EVENTS is not None: unregister_events(EVENTS.values())` leaves
\* of the host's events and handlers
StopEvents ==
    IF EVENTS.isNone
    THEN [registered |-> registered, handlers |-> handlers]
    ELSE unregister_events(EVENTS.items, registered, handlers)

\* stop(context): `if SERVER is not None: SERVER.close()`; the module's
\* PROCESS is None, run having assigned a local of that name, so nothing is
\* joined; with no server to close stop goes on to the events at once
AddinStop ==
    /\ apc \in {"running", "failed"}
    /\ mpc = "idle"
    /\ IF SERVER = "accepting"
       THEN /\ SERVER' = "closed"
            /\ apc' = "closing"
            /\ UNCHANGED <<registered, handlers, logHandler>>
       ELSE /\ registered' = StopEvents.registered
            /\ handlers' = StopEvents.handlers
            /\ apc' = "stopped"
            /\ logHandler' = StopFinally(logHandler)
            /\ UNCHANGED SERVER
    /\ UNCHANGED <<dispatchVars, sideVars, declared, imported, FUSION_EVENTS, EVENTS,
                   spc, messageBoxes, calls, raisedIn, hostRaised>>

\* stop(context) after SERVER.close() has returned:
\* `if EVENTS is not None: unregister_events(EVENTS.values())`, then its
\* finally clause
StopUnregister ==
    /\ apc = "closing"
    /\ registered' = StopEvents.registered
    /\ handlers' = StopEvents.handlers
    /\ apc' = "stopped"
    /\ logHandler' = StopFinally(logHandler)
    /\ UNCHANGED <<dispatchVars, sideVars, declared, imported, FUSION_EVENTS, EVENTS,
                   SERVER, spc, messageBoxes, calls, raisedIn, hostRaised>>

NextAddin ==
    \/ Import
    \/ RunRegister
    \/ ServerStart
    \/ ServerExit
    \/ AddinStop
    \/ StopUnregister
    \/ \E c \in Callers : Call(c)
    \/ \E c \in Callers : Probe(c)
    \/ \E c \in Callers : Fire(c)
    \/ \E c \in Callers : Wait(c)
    \/ UserCommand
    \/ Notify
    \/ Invoke
    \/ SetResult
    \/ SetException
    \/ CallerCallback
    \/ HandlerAcquire
    \/ HandlerPop

SpecAddin == InitAddin /\ [][NextAddin]_vars

\* the steps of the privileged thread that wait for nobody: the host runs
\* run and stop to their end and delivers the events it has queued
MainStep ==
    \/ Import
    \/ RunRegister
    \/ StopUnregister
    \/ Notify
    \/ Invoke
    \/ SetResult
    \/ SetException
    \/ CallerCallback
    \/ HandlerAcquire
    \/ HandlerPop

\* every thread that can take a step gets to take it: the threads of the
\* server once inside the wrapper, the thread of start_service, and the
\* privileged thread; when clients call, when the user starts a command
\* and when the host stops the addin is up to them
SpecAddinFair ==
    /\ SpecAddin
    /\ \A c \in Callers : WF_vars(Probe(c) \/ Fire(c) \/ Wait(c))
    /\ WF_vars(ServerStart \/ ServerExit)
    /\ WF_vars(MainStep)

(***************************************************************************)
(* BasicFusionAddin: run(context) and stop(context) of an addin object     *)
(* whose subclass supplies the hooks _create_service, _start_service,      *)
(* _stop_service and _post_run.  A hook returns, raises an Exception, or   *)
(* raises a BaseException that is no Exception, such as SystemExit.        *)
(***************************************************************************)

HookOutcomes == {"ok", "Exception", "BaseException"}

\* _create_service sets self.server, leaves it None, or raises
CreateOutcomes == {"server", "None", "Exception", "BaseException"}

\* BasicFusionAddin.start_service: `self._create_service(context)`, back at
\* once if self.server is None, else `self._start_service(context)`; an
\* Exception of either is shown in a message box of its own, anything else
\* is raised to run
start_service(create, start) ==
    IF create = "None"
    THEN [server |-> "None", boxes |-> {}, raised |-> FALSE]
    ELSE IF create = "Exception"
    THEN [server |-> "None", boxes |-> {"server"}, raised |-> FALSE]
    ELSE IF create = "BaseException"
    THEN [server |-> "None", boxes |-> {}, raised |-> TRUE]
    ELSE IF start = "ok"
    THEN [server |-> "accepting", boxes |-> {}, raised |-> FALSE]
    ELSE IF start = "Exception"
    THEN [server |-> "created", boxes |-> {"server"}, raised |-> FALSE]
    ELSE [server |-> "created", boxes |-> {}, raised |-> TRUE]

\* BasicFusionAddin.stop_service: `if self.server is not None:
\* self.server.close()`, then `self._stop_service(context)`
stop_service(server, close, hook) ==
    IF server # "None" /\ close # "ok"
    THEN [server |-> server, raised |-> TRUE]
    ELSE [server |-> IF server = "None" THEN "None" ELSE "closed",
          raised |-> hook # "ok"]

InitBasic ==
    /\ declared \in {p \in Programs : Len(p) = 1}
    /\ apc = "loaded"
    /\ Loaded({}, "call")

\* BasicFusionAddin.run: the try block reloads rpcad, puts the handler on
\* the rpcad logger and calls start_service; the bare except clause shows
\* what was raised in a message box; the finally clause runs
\* `self.handler.flush()` and then `self._post_run(context)`
BasicRun ==
    /\ apc = "loaded"
    /\ imported = "no"
    /\ \E create \in CreateOutcomes, start \in HookOutcomes,
          post \in HookOutcomes :
          LET r == ImportFrom(declared, <<>>, 1)
              s == IF r.raised
                   THEN [server |-> "None", boxes |-> {}, raised |-> TRUE]
                   ELSE start_service(create, start)
          IN  /\ FUSION_EVENTS' = r.infos
              /\ imported' = IF r.raised THEN "error" ELSE "ok"
              /\ SERVER' = s.server
              /\ messageBoxes' = messageBoxes \cup s.boxes
                                   \cup (IF s.raised THEN {"run"} ELSE {})
              /\ raisedIn' = IF s.raised \/ s.boxes # {} \/ post # "ok"
                             THEN raisedIn \cup {"run"}
                             ELSE raisedIn
              /\ logHandler' = RunFinally(IF r.raised
                                          THEN logHandler
                                          ELSE AddHandler(logHandler))
              /\ hostRaised' = IF post # "ok"
                               THEN hostRaised \cup {"run"}
                               ELSE hostRaised
              /\ apc' = IF s.raised \/ post # "ok" THEN "failed" ELSE "running"
    /\ UNCHANGED <<dispatchVars, sideVars, declared, registered, handlers, EVENTS, spc,
                   calls>>

\* BasicFusionAddin.stop: the try block calls stop_service; the bare except
\* clause shows what was raised in a message box; the finally clause
\* flushes and closes the handler and takes it off the rpcad logger
BasicStop ==
    /\ apc \in {"running", "failed"}
    /\ \E close \in HookOutcomes, hook \in HookOutcomes :
          LET s == stop_service(SERVER, close, hook) IN
              /\ SERVER' = s.server
              /\ messageBoxes' = IF s.raised
                                 THEN messageBoxes \cup {"stop"}
                                 ELSE messageBoxes
              /\ raisedIn' = IF s.raised
                             THEN raisedIn \cup {"stop"}
                             ELSE raisedIn
    /\ logHandler' = StopFinally(logHandler)
    /\ apc' = "stopped"
    /\ UNCHANGED <<dispatchVars, sideVars, declared, imported, FUSION_EVENTS,
                   registered, handlers, EVENTS, spc, calls, hostRaised>>

NextBasic ==
    \/ BasicRun
    \/ BasicStop

SpecBasic == InitBasic /\ [][NextBasic]_vars

(***************************************************************************)
(* A serving session under a host that delivers what is fired: up to       *)
(* MaxServed dispatches are made, and every thread that can take a step    *)
(* gets to take it.                                                        *)
(***************************************************************************)

\* the dispatches the clients of the session make
ServeCall == \E c \in 1..MaxServed : Call(c)

NextServe ==
    \/ ServeCall
    \/ \E c \in Callers : Probe(c)
    \/ \E c \in Callers : Fire(c)
    \/ \E c \in Callers : Wait(c)
    \/ UserCommand
    \/ Notify
    \/ Invoke
    \/ SetResult
    \/ SetException
    \/ CallerCallback
    \/ HandlerAcquire
    \/ HandlerPop

\* a thread inside the wrapper runs on, and the privileged thread delivers
\* every queued event and runs notify, the operation and the callbacks to
\* their end; when clients call and when the user starts a command is up
\* to them
SpecServeFair ==
    /\ Init
    /\ [][NextServe]_vars
    /\ \A c \in Callers : WF_vars(Probe(c) \/ Fire(c) \/ Wait(c))
    /\ WF_vars(MainStep)

(***************************************************************************)
(* CADService.exposed_batch_commands (src/src/rpcad/service.py): a client  *)
(* passes one Command or a sequence of Commands; a Command holds the name  *)
(* of an operation and its arguments.                                      *)
(***************************************************************************)

\* the longest batch a client passes
MaxBatch == 3

\* the arguments of a command are 0..MaxArg; an operation raises on 0
MaxArg == 2

\* attributes of the service object that are not None
Attributes ==
    {"_undo", "exposed_undo", "exposed_parameter", "_reload", "exposed_reload"}

\* the names a client puts in a Command
CommandNames == {"undo", "parameter", "reload", "missing"}

\* Command(name, *args, **kwargs)
Command(name, arg) == [name |-> name, arg |-> arg]

Commands == {Command(n, a) : n \in CommandNames, a \in 0..MaxArg}

\* what a client passes: a sequence of Commands or one Command
Batches ==
    {[single |-> FALSE, cmds |-> s] :
        s \in UNION {[1..n -> Commands] : n \in 0..MaxBatch}}
    \cup {[single |-> TRUE, cmds |-> <<c>>] : c \in Commands}

\* ValueError(f"Found invalid commands: {invalid_commands}")
ValueError(names) == [kind |-> "ValueError", names |-> names]

\* CADService._find_attribute: the implementation `_name` if the service
\* has it, else the public `exposed_name`, else None
find_attribute(name) ==
    IF ("_" \o name) \in Attributes THEN "_" \o name
    ELSE IF (EXPOSED_PREFIX \o name) \in Attributes THEN EXPOSED_PREFIX \o name
    ELSE "None"

\* CADService._invoke_static(attr, *args, **kwargs): the attribute called
\* with the command's arguments returns a value or raises
invoke_static(attr, arg) ==
    IF arg = 0
    THEN [how |-> "raise", value |-> [kind |-> "err", id |-> attr, tag |-> arg]]
    ELSE [how |-> "return", value |-> [kind |-> "val", id |-> attr, tag |-> arg]]

\* the first loop of _execute_batch from command n on: the names that
\* resolve to nothing and the attributes the others resolve to
RECURSIVE Resolve(_, _, _, _)
Resolve(commands, n, invalid, resolved) ==
    IF n > Len(commands)
    THEN [invalid |-> invalid, resolved |-> resolved]
    ELSE LET attr == find_attribute(commands[n].name) IN
         IF attr = "None"
         THEN Resolve(commands, n + 1, Append(invalid, commands[n].name),
                      resolved)
         ELSE Resolve(commands, n + 1, invalid, Append(resolved, attr))

\* a second loop that undoes what the batch did when a command raises
ExecuteFromRollingBack(commands, resolved, n, done, results) ==
    LET RECURSIVE Loop(_, _, _)
        Loop(m, d, rs) ==
            IF m > Len(commands) \/ m > Len(resolved)
            THEN [how |-> "return", value |-> rs, executed |-> d]
            ELSE LET r == invoke_static(resolved[m], commands[m].arg) IN
                 IF r.how = "raise"
                 THEN [how |-> "raise", value |-> r.value, executed |-> <<>>]
                 ELSE Loop(m + 1, Append(d, commands[m]), Append(rs, r.value))
    IN  Loop(n, done, results)

\* the second loop of _execute_batch from command n on: each command is
\* invoked and its result appended; what a command raises ends the loop
RECURSIVE ExecuteFrom(_, _, _, _, _)
ExecuteFrom(commands, resolved, n, done, results) ==
    IF n > Len(commands) \/ n > Len(resolved)
    THEN [how |-> "return", value |-> results, executed |-> done]
    ELSE LET r == invoke_static(resolved[n], commands[n].arg) IN
         IF r.how = "raise"
         THEN [how |-> "raise", value |-> r.value,
               executed |-> Append(done, commands[n])]
         ELSE ExecuteFrom(commands, resolved, n + 1,
                          Append(done, commands[n]), Append(results, r.value))

\* an _execute_batch that resolves each command when its turn comes
RECURSIVE ResolveAndExecuteFrom(_, _, _, _)
ResolveAndExecuteFrom(commands, n, done, results) ==
    IF n > Len(commands)
    THEN [how |-> "return", value |-> results, executed |-> done]
    ELSE LET attr == find_attribute(commands[n].name) IN
         IF attr = "None"
         THEN [how |-> "raise",
               value |-> ValueError(Resolve(commands, 1, <<>>, <<>>).invalid),
               executed |-> done]
         ELSE LET r == invoke_static(attr, commands[n].arg) IN
              IF r.how = "raise"
              THEN [how |-> "raise", value |-> r.value,
                    executed |-> Append(done, commands[n])]
              ELSE ResolveAndExecuteFrom(commands, n + 1,
                       Append(done, commands[n]), Append(results, r.value))

execute_batch_lazily(commands) ==
    ResolveAndExecuteFrom(commands, 1, <<>>, <<>>)

\* CADService._execute_batch(commands)
execute_batch(commands) ==
    LET v == Resolve(commands, 1, <<>>, <<>>) IN
    IF v.invalid # <<>>
    THEN [how |-> "raise", value |-> ValueError(v.invalid), executed |-> <<>>]
    ELSE ExecuteFrom(commands, v.resolved, 1, <<>>, <<>>)

\* a batch_commands that gives one Command a list back
batch_commands_as_list(b) == execute_batch(b.cmds)

\* CADService.exposed_batch_commands(commands):
\* `if isinstance(commands, Command): return self._execute_batch([commands])[0]`
\* else `return self._execute_batch(commands)`
exposed_batch_commands(b) ==
    IF b.single
    THEN LET r == execute_batch(<<b.cmds[1]>>) IN
         IF r.how = "return" THEN [r EXCEPT !.value = r.value[1]] ELSE r
    ELSE execute_batch(b.cmds)

InitBatch ==
    /\ Serving
    /\ BridgeAtRest
    /\ NoConnect
    /\ NoRoute
    /\ NoDocs
    /\ batch \in Batches
    /\ executed = <<>>
    /\ batchRet = NoRet

\* the client's batch_commands(commands), which is
\* `self.connection.root.batch_commands(commands)`, served by the service
BatchCommands ==
    /\ batchRet = NoRet
    /\ SERVER = "accepting"
    /\ LET r == exposed_batch_commands(batch) IN
          /\ executed' = r.executed
          /\ batchRet' = [how |-> r.how, value |-> r.value]
    /\ UNCHANGED <<dispatchVars, declared, imported, FUSION_EVENTS,
                   registered, handlers, EVENTS, SERVER, apc, spc,
                   messageBoxes, calls, boundaryVars, batch, connectVars,
                   classAttrs, routeVars, docVars>>

NextBatch == BatchCommands

SpecBatch == InitBatch /\ [][NextBatch]_vars

(***************************************************************************)
(* CADService.create_server and BaseClient.__init__: the port asked for    *)
(* and the fallback port.  What an attempt on a port meets is given with   *)
(* the call: it succeeds, or raises OSError, a subclass of OSError, an     *)
(* Exception that is no OSError, or a BaseException that is no Exception.  *)
(***************************************************************************)

RPCAD_PORT == 18888

RPCAD_FALLBACK_PORT == 18898

Ports == {RPCAD_PORT, RPCAD_FALLBACK_PORT, RPCAD_PORT + 1}

AttemptOutcomes ==
    {"ok", "OSError", "ConnectionRefusedError", "ValueError",
     "KeyboardInterrupt"}

\* isinstance(e, OSError)
IsOSError(e) == e \in {"OSError", "ConnectionRefusedError"}

Requests ==
    [who : {"create_server", "BaseClient"}, port : Ports,
     first : AttemptOutcomes, second : AttemptOutcomes]

\* a server or a connection on port p, and error e raised by the attempt
\* on port p
Connected(p) == [how |-> "return", kind |-> "connected", port |-> p]
Failed(e, p) == [how |-> "raise", kind |-> e, port |-> p]

\* the attempt on the fallback port, made in the except clause: what it
\* returns is returned and what it raises is raised
Fallback(port, second) ==
    [attempts |-> <<port, RPCAD_FALLBACK_PORT>>,
     ret |-> IF second = "ok"
             THEN Connected(RPCAD_FALLBACK_PORT)
             ELSE Failed(second, RPCAD_FALLBACK_PORT)]

\* a create_server that falls back on any error
create_server_on_any_error(port, first, second) ==
    IF first = "ok"
    THEN [attempts |-> <<port>>, ret |-> Connected(port)]
    ELSE Fallback(port, second)

\* CADService.create_server: `try: return server(cls, *args, port=port,
\* **kwargs)` and `except OSError: return server(cls, *args,
\* port=RPCAD_FALLBACK_PORT, **kwargs)`
create_server(port, first, second) ==
    IF first = "ok"
    THEN [attempts |-> <<port>>, ret |-> Connected(port)]
    ELSE IF IsOSError(first)
    THEN Fallback(port, second)
    ELSE [attempts |-> <<port>>, ret |-> Failed(first, port)]

\* BaseClient.__init__: `try: self.connection = rpyc.connect(hostname,
\* port, config=config)` and `except BaseException: self.connection =
\* rpyc.connect(hostname, RPCAD_FALLBACK_PORT, config=config)`
BaseClientInit(port, first, second) ==
    IF first = "ok"
    THEN [attempts |-> <<port>>, ret |-> Connected(port)]
    ELSE Fallback(port, second)

InitPorts ==
    /\ Serving
    /\ BridgeAtRest
    /\ NoBatchCall
    /\ NoRoute
    /\ NoDocs
    /\ request \in Requests
    /\ attempts = <<>>
    /\ connRet = NoRet

\* Fusion360Service.create_server(port=request.port)
CreateServer ==
    /\ request.who = "create_server"
    /\ connRet = NoRet
    /\ LET r == create_server(request.port, request.first, request.second) IN
          /\ attempts' = r.attempts
          /\ connRet' = r.ret
    /\ UNCHANGED <<dispatchVars, batchVars, declared, imported, FUSION_EVENTS,
                   registered, handlers, EVENTS, SERVER, apc, spc,
                   messageBoxes, calls, boundaryVars, request, classAttrs,
                   routeVars, docVars>>

\* BaseClient(port=request.port)
ClientConnect ==
    /\ request.who = "BaseClient"
    /\ connRet = NoRet
    /\ LET r == BaseClientInit(request.port, request.first, request.second) IN
          /\ attempts' = r.attempts
          /\ connRet' = r.ret
    /\ UNCHANGED <<dispatchVars, batchVars, declared, imported, FUSION_EVENTS,
                   registered, handlers, EVENTS, SERVER, apc, spc,
                   messageBoxes, calls, boundaryVars, request, classAttrs,
                   routeVars, docVars>>

NextPorts ==
    \/ CreateServer
    \/ ClientConnect

SpecPorts == InitPorts /\ [][NextPorts]_vars

(***************************************************************************)
(* The two routes to an operation of Fusion360Service: the direct remote   *)
(* call of exposed_<name>, and a Command of that name given to             *)
(* batch_commands; and the client's method called with as_command=True.    *)
(* An argument is "none" (no argument passed), "single" (one value) or     *)
(* "list" (an iterable of values); "listof1" is the list [value] the       *)
(* service builds itself.                                                  *)
(***************************************************************************)

\* the operations CADService exposes
OperationNames ==
    {"parameter", "parameters", "open_project", "save_project",
     "close_project", "export_project", "set_parameter", "set_parameters",
     "undo", "reload", "debug", "physical_properties"}

ArgumentKinds == {"none", "single", "list"}

Operations == {[name |-> n, arg |-> a] : n \in OperationNames, a \in ArgumentKinds}

\* the methods CADService declares with a body of `pass` and
\* Fusion360Service does not define
Stubs == {"_get_parameter", "_get_all_parameters", "_set_parameter"}

\* the implementation methods an instance of Fusion360Service has
Fusion360Methods ==
    Stubs \cup {"_parameter", "_parameters", "_open_project", "_save_project",
                "_close_project", "_export_project", "_set_parameters",
                "_undo", "_reload", "_debug", "_physical_properties"}

\* the attributes of the service _find_attribute can find
ServiceAttributes ==
    Fusion360Methods \cup {EXPOSED_PREFIX \o n : n \in OperationNames}

\* the implementation methods that are declared without parameters
TakesNothing ==
    {"_parameters", "_get_all_parameters", "_save_project", "_close_project",
     "_reload", "_debug"}

\* the implementation methods that return a value
ReturnsValue == {"_parameter", "_parameters", "_physical_properties"}

NoValue == [of |-> "None", arg |-> "none", item |-> FALSE]

TypeError == [of |-> "TypeError", arg |-> "none", item |-> FALSE]

AttributeErrorOf(a) == [of |-> "AttributeError", arg |-> a, item |-> FALSE]

\* the call of implementation method m with argument a: what it returns or
\* raises, and the implementations that ran
ImplCall(m, a) ==
    IF (a = "none") # (m \in TakesNothing)
    THEN [how |-> "raise", value |-> TypeError, ran |-> <<>>]
    ELSE [how |-> "return",
          value |-> IF m \in ReturnsValue
                    THEN [of |-> m, arg |-> a, item |-> FALSE]
                    ELSE NoValue,
          ran |-> <<[impl |-> m, arg |-> a]>>]

\* the implementation method the body of exposed_<name> calls
ExposedBody(name) ==
    CASE name = "parameter" -> "_get_parameter"
      [] name = "parameters" -> "_get_all_parameters"
      [] name = "set_parameters" -> "_set_parameter"
      [] OTHER -> "_" \o name

\* the direct remote call exposed_<name>(a)
exposed(name, a) ==
    CASE name = "undo" ->
            \* `count: int = 1`
            LET r == ImplCall("_undo", IF a = "none" THEN "single" ELSE a)
            IN  [r EXCEPT !.value = NoValue]
      [] name = "physical_properties" ->
            \* a single property is asked for as [prop] and its value taken
            \* out of the dict
            IF a = "single"
            THEN LET r == ImplCall("_physical_properties", "listof1") IN
                 [r EXCEPT !.value = [@ EXCEPT !.item = TRUE]]
            ELSE ImplCall("_physical_properties", a)
      [] name = "set_parameters" ->
            \* `for name, expression in parameters.items()`
            IF a = "list"
            THEN [ImplCall("_set_parameter", "single") EXCEPT !.value = NoValue]
            ELSE IF a = "none"
            THEN [how |-> "raise", value |-> TypeError, ran |-> <<>>]
            ELSE [how |-> "raise", value |-> AttributeErrorOf(a), ran |-> <<>>]
      [] OTHER ->
            LET r == ImplCall(ExposedBody(name), a) IN
            IF name \in {"parameter", "parameters"} \/ r.how = "raise"
            THEN r
            ELSE [r EXCEPT !.value = NoValue]

\* _find_attribute over the attributes attrs: `_name` first, then
\* `exposed_name`
find_attribute_in(attrs, name) ==
    IF ("_" \o name) \in attrs THEN "_" \o name
    ELSE IF (EXPOSED_PREFIX \o name) \in attrs THEN EXPOSED_PREFIX \o name
    ELSE "None"

\* _invoke_static(attr, *command.args) on Fusion360Service
invoke_attribute(attr, a) ==
    IF StartsWith(attr, EXPOSED_PREFIX)
    THEN exposed(StoredName(attr), a)
    ELSE IF attr = "_set_parameters" /\ a = "single"
    THEN [how |-> "raise", value |-> AttributeErrorOf(a), ran |-> <<>>]
    ELSE ImplCall(attr, a)

\* batch_commands(Command(name, a)) on Fusion360Service
command(name, a) ==
    LET attr == find_attribute_in(ServiceAttributes, name) IN
    IF attr = "None"
    THEN [how |-> "raise",
          value |-> [of |-> "ValueError", arg |-> name, item |-> FALSE],
          ran |-> <<>>]
    ELSE invoke_attribute(attr, a)

\* the methods of Client made with remote_call
ClientMethods == OperationNames \ {"set_parameter"}

\* `arguments = signature.bind(self, *args, **kwargs)` and
\* `arguments.apply_defaults()` for the client's method called name
BoundArguments(name, a) ==
    IF name = "undo" /\ a = "none" THEN "single" ELSE a

\* whether the arguments fit the signature of the client's method
Binds(name, a) ==
    \/ name = "undo"
    \/ (a = "none") = (("_" \o name) \in TakesNothing)

\* the wrapper remote_call makes for the client's method called name
remote_call(name, a, as_command) ==
    IF ~Binds(name, a)
    THEN [how |-> "raise", remote |-> FALSE,
          value |-> [name |-> "TypeError", arg |-> "none"]]
    ELSE [how |-> "return", remote |-> ~as_command,
          value |-> [name |-> name, arg |-> BoundArguments(name, a)]]

InitRoutes ==
    /\ Serving
    /\ BridgeAtRest
    /\ NoBatchCall
    /\ NoConnect
    /\ NoDocs
    /\ operation \in Operations
    /\ directRet = NoRet
    /\ commandRet = NoRet
    /\ clientRet = NoRet

\* the remote call `connection.root.<name>(arg)`
DirectCall ==
    /\ directRet = NoRet
    /\ SERVER = "accepting"
    /\ directRet' = exposed(operation.name, operation.arg)
    /\ UNCHANGED <<dispatchVars, declared, imported, FUSION_EVENTS,
                   registered, handlers, EVENTS, SERVER, apc, spc,
                   messageBoxes, calls, boundaryVars, batchVars, connectVars,
                   classAttrs, docVars, operation, commandRet, clientRet>>

\* `connection.root.batch_commands(Command(name, arg))`
CommandCall ==
    /\ commandRet = NoRet
    /\ SERVER = "accepting"
    /\ commandRet' = command(operation.name, operation.arg)
    /\ UNCHANGED <<dispatchVars, declared, imported, FUSION_EVENTS,
                   registered, handlers, EVENTS, SERVER, apc, spc,
                   messageBoxes, calls, boundaryVars, batchVars, connectVars,
                   classAttrs, docVars, operation, directRet, clientRet>>

\* `client.<name>(arg, as_command=True)`
AsCommand ==
    /\ clientRet = NoRet
    /\ operation.name \in ClientMethods
    /\ clientRet' = remote_call(operation.name, operation.arg, TRUE)
    /\ UNCHANGED <<dispatchVars, declared, imported, FUSION_EVENTS,
                   registered, handlers, EVENTS, SERVER, apc, spc,
                   messageBoxes, calls, boundaryVars, batchVars, connectVars,
                   classAttrs, docVars, operation, directRet, commandRet>>

NextRoutes ==
    \/ DirectCall
    \/ CommandCall
    \/ AsCommand

SpecRoutes == InitRoutes /\ [][NextRoutes]_vars

(***************************************************************************)
(* Fusion360Service and the host's documents: the host has an active       *)
(* document (0 for none) and, when that document's product is a design,    *)
(* the design of it; the user opens, closes and switches documents at any  *)
(* time, and the service keeps what it last read.                          *)
(***************************************************************************)

\* documents the host can have open
MaxDocs == 2

\* `app.activeDocument` and `Design.cast(app.activeProduct)`: a design
\* belongs to the active document
HostStates ==
    {h \in [doc : 0..MaxDocs, design : 0..MaxDocs] : h.design \in {0, h.doc}}

\* the operations of Fusion360Service decorated with ensure_valid_document
GuardedOps == {"parameter", "save_project", "reload"}

\* a _sync_design that keeps what the service holds
keep_design(svc, h) == svc

\* Fusion360Service._sync_design
sync_design(svc, h) == [svc EXCEPT !.document = h.doc, !.design = h.design]

\* Fusion360Service._validate_design: what it leaves in the service and the
\* RuntimeError it raises, "no" when none
validate_design(svc, h) ==
    LET s == sync_design(svc, h) IN
    [service |-> s,
     raised |-> IF s.document = 0 THEN "No open documents"
                ELSE IF s.design = 0 THEN "No open designs"
                ELSE "no"]

\* the body of a guarded operation: it works on self._document and
\* self._design
GuardedBody(op, svc, h) ==
    [how |-> "return", ran |-> TRUE, service |-> svc,
     document |-> svc.document, design |-> svc.design]

\* the wrapper ensure_valid_document makes around the operation op
ensure_valid_document(op, svc, h) ==
    LET v == validate_design(svc, h) IN
    IF v.raised # "no"
    THEN [how |-> "RuntimeError", ran |-> FALSE, service |-> v.service,
          document |-> 0, design |-> 0]
    ELSE GuardedBody(op, v.service, h)

\* Fusion360Service._close_project: closed tells whether the document was
\* closed
close_project(svc, h) ==
    LET s == sync_design(svc, h) IN
    IF s.document = 0
    THEN [closed |-> FALSE, service |-> s]
    ELSE [closed |-> TRUE, service |-> [s EXCEPT !.document = 0, !.design = 0]]

InitDocs ==
    /\ Serving
    /\ BridgeAtRest
    /\ NoBatchCall
    /\ NoConnect
    /\ NoRoute
    /\ host \in HostStates
    /\ service = NotConnected
    /\ lastCall = NoCall

\* Fusion360Service.on_connect: `self._setup()`
OnConnect ==
    /\ ~service.app
    /\ SERVER = "accepting"
    /\ service' = sync_design([service EXCEPT !.app = TRUE], host)
    /\ lastCall' = [NoCall EXCEPT !.op = "on_connect", !.met = host,
                                  !.left = host, !.how = "return"]
    /\ UNCHANGED <<dispatchVars, sessionVars, host>>

\* Fusion360Service.on_disconnect
OnDisconnect ==
    /\ service.app
    /\ service' = [app |-> FALSE, document |-> 0, design |-> 0]
    /\ lastCall' = [NoCall EXCEPT !.op = "on_disconnect", !.met = host,
                                  !.left = host, !.held = service.document,
                                  !.how = "return"]
    /\ UNCHANGED <<dispatchVars, sessionVars, host>>

\* the user opens, closes or activates a document in the host
HostChange ==
    /\ host' \in HostStates \ {host}
    /\ UNCHANGED <<dispatchVars, sessionVars, service, lastCall>>

\* a remote call of an operation decorated with ensure_valid_document
GuardedCall(op) ==
    /\ service.app
    /\ LET r == ensure_valid_document(op, service, host) IN
          /\ service' = r.service
          /\ lastCall' = [op |-> op, met |-> host, left |-> host,
                          held |-> service.document, how |-> r.how,
                          ran |-> r.ran, document |-> r.document,
                          design |-> r.design]
    /\ UNCHANGED <<dispatchVars, sessionVars, host>>

\* a remote call of close_project: `self._document.close(False)` leaves the
\* host with another of its documents active, or with none
CloseProject ==
    /\ service.app
    /\ LET r == close_project(service, host) IN
          /\ service' = r.service
          /\ IF r.closed
             THEN host' \in {h \in HostStates : h.doc # host.doc}
             ELSE host' = host
          /\ lastCall' = [op |-> "close_project", met |-> host, left |-> host',
                          held |-> service.document, how |-> "return",
                          ran |-> r.closed, document |-> 0, design |-> 0]
    /\ UNCHANGED <<dispatchVars, sessionVars>>

NextDocs ==
    \/ OnConnect
    \/ OnDisconnect
    \/ HostChange
    \/ \E op \in GuardedOps : GuardedCall(op)
    \/ CloseProject

SpecDocs == InitDocs /\ [][NextDocs]_vars

TypeOK ==
    /\ FUTURES_LOCK \in Callers \cup {Main, Free}
    /\ DOMAIN FUTURES \subseteq {OperationId} \X (0..MaxCallers)
    /\ \A k \in DOMAIN FUTURES : FUTURES[k] \in Callers

(***************************************************************************)
(* Properties of the dispatch bridge                                       *)
(***************************************************************************)

\* a dispatch whose Future is in the registry and not yet completed
Pending(c) == key[c] # NoKey /\ ~completed(future[c])

\* the call of thread c was made without a callback and has returned
SyncDone(c) == callback[c] = "None" /\ pc[c] = "done"

\* the smallest index n >= 0 whose key for event id i is not in registry F
SmallestFree(F, i) ==
    CHOOSE n \in 0..Cardinality(DOMAIN F) :
        /\ Key(i, n) \notin DOMAIN F
        /\ \A m \in 0..(n - 1) : Key(i, m) \in DOMAIN F

\* C1: every caller of a dispatch made without a callback gets back a value
\* or an error the operation produces from that caller's own arguments,
\* never what it produced from another caller's arguments
NoCrossTalk ==
    \A c \in Callers :
        SyncDone(c) => ret[c] \in Function(id[c], future[c].args)

\* C1 witness: all callers dispatched without a callback and all have their
\* answer, a value for one and an error for another
NoCrossTalkWitness ==
    /\ \A c \in Callers : SyncDone(c)
    /\ \E c, d \in Callers : ret[c].how = "return" /\ ret[d].how = "raise"

\* C2: every pending dispatch owns its registry key, the keys of two pending
\* dispatches differ, so no insertion has replaced a pending Future
PendingKeepsKey ==
    /\ \A c \in Callers :
          Pending(c) => key[c] \in DOMAIN FUTURES /\ FUTURES[key[c]] = c
    /\ \A c, d \in Callers :
          Pending(c) /\ Pending(d) /\ c # d => key[c] # key[d]

\* C2 witness: as many pending dispatches as calling threads, each under a
\* key of its own
PendingKeepsKeyWitness ==
    /\ \A c \in Callers : Pending(c)
    /\ Cardinality(DOMAIN FUTURES) = MaxCallers

\* C3: the key a dispatch allocates is the key of the smallest index that is
\* not in the registry at that moment
AllocatesSmallestFree ==
    [][\A c \in Callers :
          key[c] = NoKey /\ key'[c] # NoKey
             => key'[c] = Key(id[c], SmallestFree(FUTURES, id[c]))]_vars

\* C3 witness: a dispatch holds index 2 while indices 0 and 1 are held by two
\* other pending dispatches
AllocatesSmallestFreeWitness ==
    \E c, d, e \in Callers :
        /\ Pending(c) /\ Pending(d) /\ Pending(e)
        /\ key[c] = Key(OperationId, 0)
        /\ key[d] = Key(OperationId, 1)
        /\ key[e] = Key(OperationId, 2)

\* C4: a dispatch made without a callback has given nothing back while its
\* Future is incomplete, and what it gives back is what the operation did on
\* the privileged thread: its value returned, or its error raised
SyncReturnsOutcome ==
    \A c \in Callers :
        callback[c] = "None" /\ ret[c] # NoRet
           => /\ completed(future[c])
              /\ produced[c] # NoRet
              /\ ret[c] = produced[c]

\* C4 witness: a caller without a callback had the operation's error raised
SyncReturnsOutcomeWitness ==
    \E c \in Callers :
        /\ SyncDone(c)
        /\ produced[c].how = "raise"
        /\ ret[c] = produced[c]

\* notify has finished serving the dispatch of thread c
Served(c) == completed(future[c]) /\ cur # c

\* C5: a dispatch made with a callback returns None, and its callback is
\* invoked once and no more, with the operation's value or error, by the
\* time the privileged thread has served the dispatch
AsyncCallbackOnce ==
    \A c \in Callers :
        callback[c] = "cb"
           => /\ pc[c] = "done" => ret[c] = [how |-> "return", value |-> None]
              /\ Len(cbCalls[c]) <= 1
              /\ Len(cbCalls[c]) = 1 => cbCalls[c][1] = produced[c].value
              /\ Served(c) => Len(cbCalls[c]) = 1

\* C6: once a dispatch has been served its key no longer leads to its Future
\* in the registry, and the registry is empty once every dispatch is served
RegistryNeverLeaks ==
    /\ \A c \in Callers :
          Served(c) => ~(key[c] \in DOMAIN FUTURES /\ FUTURES[key[c]] = c)
    /\ (\A c \in Callers : Served(c)) => DOMAIN FUTURES = {}

\* C7: no notification raises into the host
NotifyNeverRaises == hostErrors = {}

\* C9: a Future's callback is invoked only in the step that completes the
\* Future, and not after it was invoked once
CallbackFiresOnce ==
    [][\A c \in Callers :
          fired'[c] # fired[c]
             => /\ fired[c] = 0
                /\ ~completed(future[c])
                /\ completed(future'[c])]_vars

\* C10: once a Future is completed its stored result and its stored error
\* stay what they are
WriteOnce ==
    [][\A c \in Callers :
          completed(future[c])
             => /\ future'[c].result = future[c].result
                /\ future'[c].exception = future[c].exception]_vars

\* C8: a completed Future has its result or its error and not both: exactly
\* one of has_result and has_exception is true of it
ExactlyOneOutcome ==
    \A c \in Callers :
        completed(future[c])
           => (has_result(future[c]) # has_exception(future[c]))

\* what the last wait or get_result on the Future gave back
Timeout == [how |-> "raise", value |-> TimeoutError]
Returned(v) == [how |-> "return", value |-> v]
Raised(e) == [how |-> "raise", value |-> e]

\* C11: a get_result raises TimeoutError if the Future is not complete when
\* the timeout elapses, raises the stored error if there is one, and returns
\* the stored value otherwise; a wait returns true if and only if the Future
\* is complete; neither changes the Future
ThreeOutcomes ==
    [][ret'[1] # ret[1]
          => /\ future' = future
             /\ \/ ret'[1] = Returned(IF completed(future[1])
                                       THEN True ELSE False)
                \/ /\ ~completed(future[1])
                   /\ ret'[1] = Timeout
                \/ /\ completed(future[1])
                   /\ future[1].exception # None
                   /\ ret'[1] = Raised(future[1].exception)
                \/ /\ completed(future[1])
                   /\ future[1].exception = None
                   /\ ret'[1] = Returned(future[1].result)]_vars

\* C11 witness: a Future completed with a value and with an error had its
\* error raised by get_result
ThreeOutcomesWitness ==
    /\ completed(future[1])
    /\ future[1].result # None
    /\ future[1].exception # None
    /\ ret[1] = Raised(future[1].exception)

\* C12: a get_result that times out leaves the Future as it was; the Future
\* is still completed by a set_result or set_exception that comes after, and
\* the get_result that follows gives the stored value or raises the stored
\* error
TimeoutKeepsFuture ==
    [][/\ ret'[1] = Timeout /\ ret[1] # Timeout
          => future' = future /\ fired' = fired /\ cbCalls' = cbCalls
       /\ ret[1] = Timeout /\ future' # future
          => completed(future'[1])
       /\ ret[1] = Timeout /\ completed(future[1]) /\ ret'[1] # ret[1]
          => ret'[1] \in {Returned(True),
                          IF future[1].exception # None
                          THEN Raised(future[1].exception)
                          ELSE Returned(future[1].result)}]_vars

\* C12 witness: the Future was completed with a value after the last
\* get_result on it had timed out
TimeoutKeepsFutureWitness ==
    /\ ret[1] = Timeout
    /\ has_result(future[1])
    /\ future[1].exception = None

\* C13: a thread holds the registry lock only inside the block that probes
\* for a key and inserts, or inside the block that pops a key: not while it
\* is blocked in get_result, not while the operation runs on the privileged
\* thread, not while a caller's callback runs
LockOnlyAroundRegistry ==
    /\ \A c \in Callers : FUTURES_LOCK = c => pc[c] = "probe"
    /\ FUTURES_LOCK = Main => mpc = "h_pop"

\* C13 witness: one caller is blocked in get_result, the privileged thread
\* runs another dispatch's caller callback, and a third thread is inside the
\* lock allocating its key
LockOnlyAroundRegistryWitness ==
    \E c, d \in Callers :
        /\ c # d
        /\ pc[c] = "wait"
        /\ mpc = "caller_cb"
        /\ FUTURES_LOCK = d

\* C14: the registry changes only in a step of the thread that holds the
\* lock: an entry is added by a calling thread inside its allocation block,
\* an entry is removed by the wrapper's handler inside its removal block,
\* once the Future is completed, and no other step touches the registry
RegistryChangesUnderLock ==
    [][FUTURES' # FUTURES
          => \/ \E c \in Callers :
                   /\ FUTURES_LOCK = c
                   /\ pc[c] = "probe"
                   /\ key'[c] \notin DOMAIN FUTURES
                   /\ DOMAIN FUTURES' = DOMAIN FUTURES \cup {key'[c]}
                   /\ FUTURES'[key'[c]] = c
                   /\ \A k \in DOMAIN FUTURES : FUTURES'[k] = FUTURES[k]
             \/ /\ FUTURES_LOCK = Main
                /\ mpc = "h_pop"
                /\ completed(future[cur])
                /\ DOMAIN FUTURES' = DOMAIN FUTURES \ {key[cur]}
                /\ \A k \in DOMAIN FUTURES' : FUTURES'[k] = FUTURES[k]]_vars

\* C14 witness: a served dispatch has had its entry removed while another
\* dispatch's entry stays in the registry
RegistryChangesUnderLockWitness ==
    \E c, d \in Callers :
        /\ Served(c)
        /\ key[c] \notin DOMAIN FUTURES
        /\ Pending(d)
        /\ key[d] \in DOMAIN FUTURES

(***************************************************************************)
(* Properties of the event registration                                    *)
(***************************************************************************)

\* the event ids of the operations the imported classes declare
DeclaredIds == {FUSION_EVENTS[n].id : n \in DOMAIN FUSION_EVENTS}

\* C16: in a program whose classes were all created, no two operations
\* recorded in _FUSION_EVENTS have the same event id
UniqueEventIds ==
    imported = "ok"
       => \A m, n \in DOMAIN FUSION_EVENTS :
             m # n => FUSION_EVENTS[m].id # FUSION_EVENTS[n].id

\* C15: when the first register_events on a host with no event has acted, it
\* has returned a dict with one pair per recorded operation, and every
\* recorded operation has its event registered and, attached to it, a
\* handler that is its unwrapped implementation
RegistersEveryOperation ==
    calls = 1 /\ ret[1] # NoRet /\ ret[1] # Returned(None)
       => /\ ret[1] = Returned(EventsDict(1))
          /\ ~EVENTS.isNone
          /\ Cardinality(DOMAIN EVENTS.items) = Len(FUSION_EVENTS)
          /\ \A n \in DOMAIN FUSION_EVENTS :
                LET ei == FUSION_EVENTS[n] IN
                /\ ei.id \in registered
                /\ <<ei.id, ei.handler>> \in handlers
                /\ ei.id \in DOMAIN EVENTS.items
                /\ EVENTS.items[ei.id] = ei.handler
                /\ ei.handler.depth = 0

\* C17: an unregister_events of what register_events returned leaves no
\* event of the program registered and no handler attached, and the
\* register_events that follows it returns, with every event registered
\* again
UnregisterRestores ==
    [][/\ ret'[1] = Returned(None) /\ ret[1] # Returned(None)
          => registered' = {} /\ handlers' = {}
       /\ ret[1] = Returned(None) /\ ret'[1] # ret[1]
          => /\ ret'[1] = Returned(EventsDict(calls'))
             /\ registered' = DeclaredIds
             /\ DOMAIN EVENTS'.items = DeclaredIds]_vars

\* C17 witness: the second register_events returned, with two events
\* registered again
UnregisterRestoresWitness ==
    /\ ret[1] = Returned(EventsDict(2))
    /\ Cardinality(registered) = 2

(***************************************************************************)
(* Properties of the addin's sessions                                      *)
(***************************************************************************)

\* C18: a run whose register_events raised has started no server, and once
\* the addin is stopped none of the events it registered is left with the
\* host
AbortedStartupCleans ==
    "run" \in messageBoxes
       => /\ spc = "none"
          /\ SERVER = "None"
          /\ apc = "stopped" => registered = {} /\ handlers = {}

\* C19: the server accepts connections only between run and stop, with
\* every declared event registered, a dispatch is begun only after
\* register_events returned, and once stop is over the server is closed
SessionOrder ==
    /\ SERVER = "accepting"
          => apc = "running" /\ DeclaredIds \subseteq registered
    /\ \A c \in Callers : future[c].exists => ~EVENTS.isNone
    /\ apc = "stopped" /\ spc # "none" => SERVER # "accepting"

\* C20: a dispatch made without a callback whose event the host has queued
\* is in the end served, whether or not the addin is stopped meanwhile: its
\* Future leaves the registry and its caller returns
InFlightCompletes ==
    \A c \in Callers :
        (/\ callback[c] = "None"
         /\ pc[c] = "wait"
         /\ ~completed(future[c])
         /\ key[c] \in events)
           ~> (/\ pc[c] = "done"
               /\ ~(key[c] \in DOMAIN FUTURES /\ FUTURES[key[c]] = c))

(***************************************************************************)
(* Properties of dispatches made side by side                              *)
(***************************************************************************)

\* C21: of two dispatches under way together, A made without a callback and
\* B made with one, A's call gives back the value the operation returned
\* for A, B's callback is called only once A's call has returned, and once
\* both are served neither has its entry left in the registry
EndToEnd ==
    \A c, d \in Callers :
        (/\ callback[c] = "None" /\ future[c].exists
         /\ callback[d] = "cb" /\ future[d].exists)
           => /\ SyncDone(c) /\ produced[c].how = "return"
                 => ret[c] = produced[c]
              /\ cbCalls[d] # <<>> => pc[c] = "done"
              /\ Served(c) /\ Served(d)
                 => \A x \in {c, d} :
                       ~(key[x] \in DOMAIN FUTURES /\ FUTURES[key[x]] = x)

(***************************************************************************)
(* Properties of DispatchHandler.notify                                    *)
(***************************************************************************)

\* C27: while notify serves a notification SelectCommand is the active
\* command, it having been executed first if another was active; nothing is
\* looked up or invoked before that; the operation is invoked only on the
\* Future stored under the event's token and with that Future's arguments;
\* and a Future is completed only after its operation ran, a set_result
\* storing the value it returned and the first set_exception the error it
\* raised
NotifyOrder ==
    /\ mpc # "idle" => activeCommand = "SelectCommand"
    /\ mpc = "lookup" => cur = 0 /\ outcome = NoRet
    /\ mpc \notin {"idle", "lookup"}
          => /\ cur \in Callers
             /\ key[cur] = info
             /\ outcome = produced[cur]
             /\ outcome \in Function(info[1], future[cur].args)
    /\ mpc = "set_result" => outcome.how = "return" /\ ~completed(future[cur])
    /\ mpc = "set_exception" /\ ~completed(future[cur])
          => outcome.how = "raise" /\ raised = outcome.value
    /\ \A c \in Callers :
          /\ produced[c] = NoRet => ~completed(future[c])
          /\ completed(future[c]) /\ produced[c].how = "return"
                => future[c].result = produced[c].value
          /\ completed(future[c]) /\ produced[c].how = "raise"
                => future[c].exception = produced[c].value /\ ~has_result(future[c])

\* C27 witness: notify found another command active, executed SelectCommand,
\* looked up the Future of the token, ran the operation with its arguments
\* and is about to store the error it raised, while another dispatch waits
\* in the registry
NotifyOrderWitness ==
    /\ selected
    /\ activeCommand = "SelectCommand"
    /\ mpc = "set_exception"
    /\ ~completed(future[cur])
    /\ FUTURES[info] = cur
    /\ outcome \in Function(OperationId, future[cur].args)
    /\ \E d \in Callers : d # cur /\ Pending(d)

\* C28: a dispatch made without a callback that has returned to its caller
\* has no entry of its own left in the registry
ReturnedKeyRemoved ==
    \A c \in Callers :
        SyncDone(c) => ~(key[c] \in DOMAIN FUTURES /\ FUTURES[key[c]] = c)

\* C29: for a dispatch made with a callback whose operation returned a
\* value, whatever the callback does when it is called with that value: it
\* is not called a second time, the Future holds the value and no exception,
\* nothing is raised into the host, and once the dispatch is served its
\* entry has left the registry
RaisingCallbackCleanedUp ==
    \A c \in Callers :
        callback[c] = "cb" /\ produced[c].how = "return"
           => /\ Len(cbCalls[c]) <= 1
              /\ future[c].exception = None
              /\ completed(future[c]) => future[c].result = produced[c].value
              /\ c \notin hostErrors
              /\ Served(c)
                    => ~(key[c] \in DOMAIN FUTURES /\ FUTURES[key[c]] = c)

\* C30: a dispatch puts its Future in the registry first, gives it the
\* cleanup callback next and fires the host event last, with its key as the
\* payload; so every fired event carries a key that is in the registry and
\* leads to a Future that has the cleanup callback, and so does the token of
\* every notification when notify looks it up and when it completes the
\* Future
InsertAttachFire ==
    /\ \A c \in Callers :
          /\ pc[c] \in {"call", "probe"}
                => key[c] = NoKey /\ future[c].callback = "None"
          /\ pc[c] = "fire"
                => /\ key[c] \in DOMAIN FUTURES /\ FUTURES[key[c]] = c
                   /\ future[c].callback = "None"
                   /\ key[c] \notin events
    /\ \A e \in events :
          /\ e \in DOMAIN FUTURES
          /\ key[FUTURES[e]] = e
          /\ pc[FUTURES[e]] \in {"wait", "done"}
          /\ future[FUTURES[e]].callback = "handler"
    /\ mpc = "lookup"
          => info \in DOMAIN FUTURES
             /\ future[FUTURES[info]].callback = "handler"
    /\ mpc \in {"set_result", "set_exception"}
          => FUTURES[info] = cur /\ future[cur].callback = "handler"

\* C30 witness: notify is looking up the token of one dispatch while the
\* event of a second is queued and a third has its Future in the registry
\* with no callback yet and no event fired
InsertAttachFireWitness ==
    /\ mpc = "lookup"
    /\ future[FUTURES[info]].callback = "handler"
    /\ \E c, d \in Callers :
          /\ key[c] \in events
          /\ pc[d] = "fire"
          /\ key[d] \in DOMAIN FUTURES

\* C22: under a host that delivers every fired event and with operations
\* and callbacks that come to an end, every dispatch made without a
\* callback gives its caller a value or an error in the end
SyncDispatchReturns ==
    \A c \in Callers :
        (callback[c] = "None" /\ pc[c] = "probe")
           ~> (pc[c] = "done" /\ ret[c] # NoRet /\ ret[c] = produced[c])

\* C22 witness: a dispatch made without a callback has returned although
\* the callback of a dispatch made beside it raised into the host
SyncDispatchReturnsWitness ==
    \E c, d \in Callers :
        /\ SyncDone(c)
        /\ ret[c] # NoRet
        /\ callback[d] = "cb"
        /\ d \in hostErrors

(***************************************************************************)
(* Properties of the addin boundary                                        *)
(***************************************************************************)

\* C23: no error leaves run(context) or stop(context) into the host; an
\* error raised in either is shown in a message box; the log handler has
\* been flushed by run once run is over; and once stop is over the handler
\* has been flushed by stop, is closed and is off the rpcad logger, whether
\* or not stopping the service failed
AddinBoundary ==
    /\ hostRaised = {}
    /\ "run" \in raisedIn
          => "run" \in messageBoxes \/ "server" \in messageBoxes
    /\ "stop" \in raisedIn => "stop" \in messageBoxes
    /\ apc \in {"running", "failed", "closing", "stopped"}
          => "run" \in logHandler.flushed
    /\ apc = "stopped"
          => /\ "stop" \in logHandler.flushed
             /\ logHandler.closed
             /\ ~logHandler.attached

(***************************************************************************)
(* Properties of batch_commands                                            *)
(***************************************************************************)

\* the name is one the service resolves to an operation
Resolvable(name) ==
    ("_" \o name) \in Attributes \/ (EXPOSED_PREFIX \o name) \in Attributes

\* the names of the commands of the batch, in order
BatchNames == [i \in 1..Len(batch.cmds) |-> batch.cmds[i].name]

NotResolvable(name) == ~Resolvable(name)

\* C24: a batch in which a command names no operation of the service ends
\* in a ValueError that lists the name of every such command, in order, and
\* no command of the batch has been invoked, not even one that comes before
\* the first unresolvable one
ValidatesBeforeExecuting ==
    (/\ batchRet # NoRet
     /\ \E i \in 1..Len(batch.cmds) : NotResolvable(batch.cmds[i].name))
       => /\ batchRet.how = "raise"
          /\ batchRet.value = ValueError(SelectSeq(BatchNames, NotResolvable))
          /\ executed = <<>>

\* C24 witness: a batch of three whose first command is one that would run
\* and whose other two name no operation was refused with both names and
\* nothing was invoked
ValidatesBeforeExecutingWitness ==
    /\ batchRet.how = "raise"
    /\ Len(batch.cmds) = 3
    /\ Resolvable(batch.cmds[1].name) /\ batch.cmds[1].arg > 0
    /\ batchRet.value = ValueError(<<"missing", "missing">>)
    /\ executed = <<>>

\* what the command returns when the service invokes it
CommandValue(cmd) ==
    [kind |-> "val", id |-> find_attribute(cmd.name), tag |-> cmd.arg]

\* C25: of a batch whose commands all name operations, the commands are
\* invoked in the order given, each once and none after one that raised;
\* when none raises the batch returns, for a sequence of commands the list
\* of their results, one per command in the order given, and for a single
\* Command that command's result itself
BatchInOrder ==
    (/\ batchRet # NoRet
     /\ \A i \in 1..Len(batch.cmds) : Resolvable(batch.cmds[i].name))
       => /\ Len(executed) <= Len(batch.cmds)
          /\ \A i \in 1..Len(executed) : executed[i] = batch.cmds[i]
          /\ (\A i \in 1..Len(batch.cmds) : batch.cmds[i].arg > 0)
                => batchRet.how = "return"
          /\ batchRet.how = "raise"
                => /\ executed # <<>>
                   /\ executed[Len(executed)].arg = 0
                   /\ \A i \in 1..(Len(executed) - 1) : executed[i].arg > 0
          /\ batchRet.how = "return"
                => /\ executed = batch.cmds
                   /\ IF batch.single
                      THEN batchRet.value = CommandValue(batch.cmds[1])
                      ELSE /\ Len(batchRet.value) = Len(batch.cmds)
                           /\ \A i \in 1..Len(batch.cmds) :
                                 batchRet.value[i] = CommandValue(batch.cmds[i])

\* C25 witness: a batch of three commands that name three operations was
\* run in order and returned their three results
BatchInOrderWitness ==
    /\ ~batch.single
    /\ batchRet.how = "return"
    /\ Len(batch.cmds) = 3
    /\ {batch.cmds[i].name : i \in 1..3} = {"undo", "parameter", "reload"}
    /\ batch.cmds[1].arg # batch.cmds[2].arg
    /\ Len(batchRet.value) = 3
    /\ executed = batch.cmds

(***************************************************************************)
(* Properties of the port fallback                                         *)
(***************************************************************************)

\* C26: create_server and BaseClient try the port asked for first and what
\* that attempt gives is given back; a second attempt is made on the
\* fallback port, once, by create_server when and only when the first
\* raised an OSError and by BaseClient when the first raised anything; any
\* other error of create_server's first attempt is raised to the caller,
\* and so is any error of the attempt on the fallback port
PortFallback ==
    connRet # NoRet
       => /\ Len(attempts) \in {1, 2}
          /\ attempts[1] = request.port
          /\ Len(attempts) = 2 => attempts[2] = RPCAD_FALLBACK_PORT
          /\ request.first = "ok" => connRet = Connected(request.port)
          /\ Len(attempts) = 2
                <=> IF request.who = "create_server"
                    THEN IsOSError(request.first)
                    ELSE request.first # "ok"
          /\ Len(attempts) = 1 /\ request.first # "ok"
                => connRet = Failed(request.first, request.port)
          /\ Len(attempts) = 2
                => connRet = IF request.second = "ok"
                             THEN Connected(RPCAD_FALLBACK_PORT)
                             ELSE Failed(request.second, RPCAD_FALLBACK_PORT)

\* C26 witness: create_server met a subclass of OSError on a port of the
\* caller's choice, tried the fallback port and raised what that attempt
\* raised
PortFallbackWitness ==
    /\ request.who = "create_server"
    /\ request.port \notin {RPCAD_PORT, RPCAD_FALLBACK_PORT}
    /\ request.first = "ConnectionRefusedError"
    /\ attempts = <<request.port, RPCAD_FALLBACK_PORT>>
    /\ connRet = Failed("ValueError", RPCAD_FALLBACK_PORT)

\* the names under which class statement k exposes a function: those of its
\* body and those of its bases
ExposedBy(k) ==
    {a \in {k.body[m] : m \in 1..Len(k.body)} \cup k.bases :
        StartsWith(a, EXPOSED_PREFIX) \/ a = "on_connect"}

\* the function class statement k exposes under the name a
OriginalOf(k, a) ==
    IF \E m \in 1..Len(k.body) : k.body[m] = a
    THEN Def(1, k.name, a)
    ELSE Def(0, "Base", a)

\* C31: once the class statement of a service class built with
\* Fusion360ServiceMeta has run, it has ended without an error, and every
\* function the class exposes as exposed_* or on_connect, its own or
\* inherited, has an event bound to the original function and is reached by
\* the RPC layer through a dispatcher of it
MetaWrapsExposed ==
    (imported # "no" /\ Len(declared) = 1) =>
        /\ imported = "ok"
        /\ \A a \in ExposedBy(declared[1]) :
              LET f == OriginalOf(declared[1], a)
                  r == RemoteAttr(classAttrs, StoredName(a))
              IN  /\ \E m \in 1..Len(FUSION_EVENTS) :
                        FUSION_EVENTS[m] =
                            EventInfo(EventId(declared[1].name, a), f)
                  /\ r \in DOMAIN classAttrs
                  /\ classAttrs[r] = Dispatcher(f)

\* C32: stop(context) unregisters the events, and ends, only when the
\* server thread run(context) started is no longer alive
StopJoinsServerThread ==
    [][(apc # "stopped" /\ apc' = "stopped") => spc \in {"none", "ended"}]_vars

\* the first command of the batch that raises when invoked, 0 when none does
FirstRaising(cmds) ==
    IF \E n \in 1..Len(cmds) : cmds[n].arg = 0
    THEN CHOOSE n \in 1..Len(cmds) :
            /\ cmds[n].arg = 0
            /\ \A m \in 1..(n - 1) : cmds[m].arg # 0
    ELSE 0

\* C34: when a command of a batch of valid commands raises, batch_commands
\* raises that command's error and returns no results, no later command is
\* executed, and what the commands before it did is kept
BatchStopsAtRaise ==
    (/\ batchRet # NoRet
     /\ \A n \in 1..Len(batch.cmds) : Resolvable(batch.cmds[n].name)
     /\ FirstRaising(batch.cmds) > 0) =>
        LET n == FirstRaising(batch.cmds) IN
        /\ batchRet.how = "raise"
        /\ batchRet.value =
              invoke_static(find_attribute(batch.cmds[n].name), 0).value
        /\ executed = SubSeq(batch.cmds, 1, n)

\* a batch of three whose second command raised after the first was executed
BatchStopsAtRaiseWitness ==
    /\ batchRet # NoRet
    /\ batchRet.how = "raise"
    /\ Len(batch.cmds) = 3
    /\ \A n \in 1..3 : Resolvable(batch.cmds[n].name)
    /\ FirstRaising(batch.cmds) = 2
    /\ executed = SubSeq(batch.cmds, 1, 2)

\* C33: a Command in batch_commands invokes the same implementation and
\* gives the same result and effects as the direct remote call of
\* exposed_<name> with the same arguments, and the client's method called
\* with as_command=True makes no remote call and gives a Command with the
\* name and arguments the direct call would have sent
CommandSameAsDirect ==
    /\ (directRet # NoRet /\ commandRet # NoRet) => commandRet = directRet
    /\ clientRet # NoRet =>
          /\ ~clientRet.remote
          /\ clientRet.value =
                remote_call(operation.name, operation.arg, FALSE).value

\* C35: an operation guarded by ensure_valid_document reads the host's
\* active document and design anew and works on them, and with no open
\* document or no open design it raises RuntimeError and runs nothing of
\* the operation; _close_project with no open document returns without
\* doing anything; after _close_project or on_disconnect the service holds
\* no document and no design
GuardedByValidDocument ==
    /\ lastCall.op \in GuardedOps =>
          IF lastCall.met.doc = 0 \/ lastCall.met.design = 0
          THEN /\ lastCall.how = "RuntimeError"
               /\ ~lastCall.ran
          ELSE /\ lastCall.how = "return"
               /\ lastCall.ran
               /\ lastCall.document = lastCall.met.doc
               /\ lastCall.design = lastCall.met.design
    /\ (lastCall.op = "close_project" /\ lastCall.met.doc = 0) =>
          /\ lastCall.how = "return"
          /\ ~lastCall.ran
          /\ lastCall.left = lastCall.met
    /\ lastCall.op \in {"close_project", "on_disconnect"} =>
          /\ service.document = 0
          /\ service.design = 0

\* a guarded operation called after the user closed the document the
\* service still held
GuardedByValidDocumentWitness ==
    /\ lastCall.op \in GuardedOps
    /\ lastCall.held # 0
    /\ lastCall.met.doc = 0
    /\ lastCall.how = "RuntimeError"

====
